---------------------------- MODULE Spec2Model ----------------------------
(***************************************************************************)
(* A model of the I/O-free HTTP/1.1 coroutines of io-http:                 *)
(*   ReadStreamChunks     (src/1.1/coroutines/read-chunks.rs)              *)
(*   SendHttp             (src/1.1/coroutines/send.rs)                     *)
(*   FollowHttpRedirects  (src/1.1/coroutines/follow-redirects.rs)         *)
(* Bytes are one-character strings, byte strings are sequences of them.    *)
(* Offsets are 0-based as in the source; Slice(s, a, b) is s[a..b].        *)
(***************************************************************************)
EXTENDS Integers, Sequences, FiniteSets, TLC

VARIABLES
    chunks,   \* the ReadStreamChunks coroutine under test
    send,     \* the SendHttp coroutine under test
    follow,   \* the FollowHttpRedirects coroutine under test
    out,      \* what the last resume call returned
    wire,     \* bytes the transport has still to deliver to the client
    env,      \* the scenario chosen at start (what the peer sends)
    log       \* what has been observed so far: whether the transport was
              \* closed, the bytes written, the count of body bytes the read
              \* that completed the header block carried (seed), the
              \* count of 3xx responses the servers have sent (redirects)

vars == <<chunks, send, follow, out, wire, env, log>>

-----------------------------------------------------------------------------
(* Bounds of the model *)

MaxBody == 3
MaxRead == 3
MaxWrite == 2
UsizeMax == 255

-----------------------------------------------------------------------------
(* Bytes and byte strings *)

CR == "\r"
LF == "\n"
SP == " "
CRLF == <<CR, LF>>
CRLF_CRLF == <<CR, LF, CR, LF>>

None == [kind |-> "None"]

Min(a, b) == IF a < b THEN a ELSE b

\* s[a..b] with 0-based offsets, b excluded
Slice(s, a, b) == SubSeq(s, a + 1, b)

\* s[a..]
From(s, a) == SubSeq(s, a + 1, Len(s))

\* memmem::find: offset of the first occurrence of needle, -1 for None
Find(hay, needle) ==
    LET hits == {i \in 0..(Len(hay) - Len(needle)) :
                    Slice(hay, i, i + Len(needle)) = needle}
    IN  IF hits = {} THEN -1 ELSE CHOOSE i \in hits : \A j \in hits : i <= j

\* memmem::rfind: offset of the last occurrence of needle, -1 for None
RFind(hay, needle) ==
    LET hits == {i \in 0..(Len(hay) - Len(needle)) :
                    Slice(hay, i, i + Len(needle)) = needle}
    IN  IF hits = {} THEN -1 ELSE CHOOSE i \in hits : \A j \in hits : i >= j

\* memchr::memchr: offset of the first occurrence of byte c, -1 for None
MemChr(c, s) ==
    LET hits == {i \in 0..(Len(s) - 1) : s[i + 1] = c}
    IN  IF hits = {} THEN -1 ELSE CHOOSE i \in hits : \A j \in hits : i <= j


-----------------------------------------------------------------------------
(* Integer parsing and formatting, as the standard library does them *)

DigitChars == <<"0", "1", "2", "3", "4", "5", "6", "7", "8", "9",
                "a", "b", "c", "d", "e", "f">>
UpperDigitChars == <<"0", "1", "2", "3", "4", "5", "6", "7", "8", "9",
                     "A", "B", "C", "D", "E", "F">>

\* char::to_digit(radix): the digit's value, -1 when c is no digit in radix
ToDigit(c, radix) ==
    LET hits == {v \in 0..(radix - 1) :
                    DigitChars[v + 1] = c \/ UpperDigitChars[v + 1] = c}
    IN  IF hits = {} THEN -1 ELSE CHOOSE v \in hits : TRUE

\* the digits of s accumulated left to right; -1 on an invalid digit or on a
\* value above UsizeMax (checked_mul / checked_add)
RECURSIVE AccDigits(_, _, _)
AccDigits(s, radix, acc) ==
    IF s = <<>> THEN acc
    ELSE LET v == ToDigit(Head(s), radix)
         IN  IF v < 0 THEN -1
             ELSE IF acc * radix + v > UsizeMax THEN -1
             ELSE AccDigits(Tail(s), radix, acc * radix + v)

\* usize::from_str_radix: the value, or -1 for Err. An empty text, a lone
\* sign, a '-' (unsigned type), a non-digit and an overflow are errors; one
\* leading '+' is accepted.
FromStrRadix(s, radix) ==
    IF s = <<>> THEN -1
    ELSE IF Len(s) = 1 /\ s[1] \in {"+", "-"} THEN -1
    ELSE IF s[1] = "+" THEN AccDigits(Tail(s), radix, 0)
    ELSE AccDigits(s, radix, 0)

\* usize::to_string: decimal digits, no sign, no leading zeros
RECURSIVE UsizeToString(_)
UsizeToString(n) ==
    IF n < 10 THEN <<DigitChars[n + 1]>>
    ELSE UsizeToString(n \div 10) \o <<DigitChars[(n % 10) + 1]>>

-----------------------------------------------------------------------------
(* io_stream's ReadStream, by its contract: resumed with nothing it asks    *)
(* for a read; resumed with a completed read of 0 bytes it reports Eof,     *)
(* otherwise it hands the bytes out. A read intent carries the capacity of  *)
(* the buffer it hands to the driver, which bounds the bytes of that read.  *)

DefaultCapacity == [limited |-> FALSE, n |-> 0]
Capacity(n) == [limited |-> TRUE, n |-> n]

ReadDone(bytes) == [kind |-> "Read", bytes |-> bytes]
WriteDone(n) == [kind |-> "Write", n |-> n]

ReadStream_resume(arg) ==
    IF arg = None THEN [kind |-> "Io"]
    ELSE IF arg.kind # "Read" THEN [kind |-> "Err"]
    ELSE IF arg.bytes = <<>> THEN [kind |-> "Eof"]
    ELSE [kind |-> "Ok", bytes |-> arg.bytes]

-----------------------------------------------------------------------------
(* Results of a resume call *)

ResIo(io, bytes) == [kind |-> "Io", io |-> io, val |-> bytes]
ResOk(v) == [kind |-> "Ok", io |-> "-", val |-> v]
ResErr(e, v) == [kind |-> "Err", io |-> e, val |-> v]
ResPanic(why) == [kind |-> "Panic", io |-> why, val |-> <<>>]
ResNew == [kind |-> "New", io |-> "-", val |-> <<>>]
ResContinue == [kind |-> "Continue", io |-> "-", val |-> <<>>]

-----------------------------------------------------------------------------
(* ReadStreamChunks *)

ReadStreamChunks_new ==
    [state |-> "ChunkSize", size |-> 0, buffer |-> <<>>, body |-> <<>>]

ReadStreamChunks_extend_Drop(c, bytes) == c

\* extend: the bytes go to the end of the inner read buffer
ReadStreamChunks_extend(c, bytes) == [c EXCEPT !.buffer = @ \o bytes]

ChunksReadDone_EofOk(c, r) ==
    CASE r.kind = "Ok" ->
           [c |-> [c EXCEPT !.buffer = @ \o r.bytes], arg |-> None,
            ret |-> ResContinue]
      [] r.kind = "Io" ->
           [c |-> c, arg |-> None, ret |-> ResIo("Read", DefaultCapacity)]
      [] r.kind = "Eof" -> [c |-> c, arg |-> None, ret |-> ResOk(c.body)]
      [] OTHER -> [c |-> c, arg |-> None, ret |-> ResErr("ReadStream", <<>>)]

\* the read performed by a state that lacks bytes: the sub-coroutine's answer
\* either ends this resume or extends the buffer
ChunksReadDone(c, r) ==
    CASE r.kind = "Ok" ->
           [c |-> [c EXCEPT !.buffer = @ \o r.bytes], arg |-> None,
            ret |-> ResContinue]
      [] r.kind = "Io" ->
           [c |-> c, arg |-> None, ret |-> ResIo("Read", DefaultCapacity)]
      [] r.kind = "Eof" ->
           [c |-> c, arg |-> None, ret |-> ResErr("UnexpectedEof", <<>>)]
      [] OTHER -> [c |-> c, arg |-> None, ret |-> ResErr("ReadStream", <<>>)]

ChunksRead(c, arg) == ChunksReadDone(c, ReadStream_resume(arg))

\* a decoder that forgets the CRLF that follows the chunk data
ChunkDataSize_NoCrlf(chunk_size) == chunk_size

\* chunk_size + CRLF.len(), before any wrap-around
ChunkDataSize(chunk_size) == chunk_size + Len(CRLF)

ChunkExt_None(semi, crlf) == crlf

\* the offset where the chunk size text ends: the first ';' before the
\* CRLF, else the CRLF
ChunkExt(semi, crlf) == IF semi < 0 THEN crlf ELSE semi

\* State::ChunkSize, once the chunk size text is parsed (chunk_size < 0: it
\* did not parse)
ChunkSizeParsed(c, crlf, text, chunk_size, checks) ==
    IF chunk_size < 0 THEN
        [c |-> c, arg |-> None, ret |-> ResErr("InvalidChunkSize", text)]
    ELSE IF chunk_size = 0 THEN
        [c |-> [c EXCEPT !.buffer = From(@, crlf), !.state = "Trailer"],
         arg |-> None, ret |-> ResContinue]
    ELSE IF ChunkDataSize(chunk_size) > UsizeMax THEN
        IF checks THEN
            [c |-> c, arg |-> None, ret |-> ResPanic("add overflow")]
        ELSE
            [c |-> [c EXCEPT !.buffer = From(@, crlf + Len(CRLF)),
                             !.state = "ChunkData",
                             !.size = ChunkDataSize(chunk_size) % (UsizeMax + 1)],
             arg |-> None, ret |-> ResContinue]
    ELSE
        [c |-> [c EXCEPT !.buffer = From(@, crlf + Len(CRLF)),
                         !.state = "ChunkData",
                         !.size = ChunkDataSize(chunk_size)],
         arg |-> None, ret |-> ResContinue]

ChunkSizeText(c, crlf, text, checks) ==
    ChunkSizeParsed(c, crlf, text, FromStrRadix(text, 16), checks)

ChunkSizeExt(c, crlf, ext, checks) ==
    ChunkSizeText(c, crlf, Slice(c.buffer, 0, ext), checks)

\* State::ChunkSize, once the buffer holds a CRLF at offset crlf
ChunkSizeLine(c, crlf, checks) ==
    ChunkSizeExt(c, crlf, ChunkExt(MemChr(";", Slice(c.buffer, 0, crlf)), crlf), checks)

\* State::ChunkData(0): the last CRLF.len() bytes leave the body
ChunkDataEnd(c) ==
    IF Len(c.body) < Len(CRLF) THEN
        [c |-> c, arg |-> None, ret |-> ResPanic("drain out of range")]
    ELSE
        [c |-> [c EXCEPT !.body = Slice(@, 0, Len(@) - Len(CRLF)),
                         !.state = "ChunkSize"],
         arg |-> None, ret |-> ResContinue]

\* State::ChunkData(size), buffer not empty
ChunkDataMove(c) ==
    [c |-> [c EXCEPT !.body = @ \o Slice(c.buffer, 0, Min(Len(c.buffer), c.size)),
                     !.buffer = From(@, Min(Len(c.buffer), c.size)),
                     !.size = @ - Min(Len(c.buffer), c.size)],
     arg |-> None, ret |-> ResContinue]

\* State::Trailer: done when the last CRLF CRLF of the buffer is at offset 0
TrailerDone(c) == RFind(c.buffer, CRLF_CRLF) = 0

\* State::ChunkSize: crlf is the offset of the first CRLF of the buffer
ChunkSizeFind(c, arg, crlf, checks) ==
    IF crlf < 0 THEN ChunksRead(c, arg)
    ELSE [ChunkSizeLine(c, crlf, checks) EXCEPT !.arg = arg]

\* one turn of the loop of resume
ChunksStep(c, arg, checks) ==
    CASE c.state = "ChunkSize" -> ChunkSizeFind(c, arg, Find(c.buffer, CRLF), checks)
      [] c.state = "ChunkData" /\ c.size = 0 ->
            [ChunkDataEnd(c) EXCEPT !.arg = arg]
      [] c.state = "ChunkData" /\ c.size > 0 /\ c.buffer = <<>> ->
            ChunksRead(c, arg)
      [] c.state = "ChunkData" /\ c.size > 0 /\ c.buffer # <<>> ->
            [ChunkDataMove(c) EXCEPT !.arg = arg]
      [] c.state = "Trailer" ->
            IF TrailerDone(c) THEN
                [c |-> [c EXCEPT !.body = <<>>], arg |-> arg, ret |-> ResOk(c.body)]
            ELSE ChunksRead(c, arg)

\* ReadStreamChunks::resume: the loop runs until a turn returns
RECURSIVE ReadStreamChunks_resume(_, _, _)
ChunksLoop(s, checks) ==
    IF s.ret.kind = "Continue" THEN ReadStreamChunks_resume(s.c, s.arg, checks)
    ELSE [c |-> s.c, ret |-> s.ret]

ReadStreamChunks_resume(c, arg, checks) == ChunksLoop(ChunksStep(c, arg, checks), checks)

-----------------------------------------------------------------------------
(* The reference encoder of the chunked transfer coding (the peer) *)

\* the hexadecimal text of n, in lower or upper case
RECURSIVE HexText(_, _)
HexText(n, upper) ==
    LET d == IF upper THEN UpperDigitChars[(n % 16) + 1] ELSE DigitChars[(n % 16) + 1]
    IN  IF n < 16 THEN <<d>> ELSE HexText(n \div 16, upper) \o <<d>>

\* every way to cut n bytes into non-empty chunks, as the sequence of sizes
RECURSIVE Cuts(_)
Cuts(n) ==
    IF n = 0 THEN {<<>>}
    ELSE UNION {{<<k>> \o rest : rest \in Cuts(n - k)} : k \in 1..n}

\* hex-size CRLF data CRLF for each chunk, then 0 CRLF CRLF
RECURSIVE EncodeChunks(_, _, _)
EncodeChunks(body, sizes, upper) ==
    IF sizes = <<>> THEN <<"0">> \o CRLF_CRLF
    ELSE HexText(Head(sizes), upper) \o CRLF
            \o Slice(body, 0, Head(sizes)) \o CRLF
            \o EncodeChunks(From(body, Head(sizes)), Tail(sizes), upper)

\* the bytes chunk data is made of here: the delimiters themselves, a digit
\* and a letter
BodyBytes == {"a", "0", CR, LF}

RECURSIVE SeqsUpTo(_, _)
SeqsUpTo(S, n) ==
    IF n = 0 THEN {<<>>}
    ELSE LET shorter == SeqsUpTo(S, n - 1)
         IN  shorter \cup {<<x>> \o s : x \in S, s \in {t \in shorter : Len(t) = n - 1}}

\* test vectors of read-chunks.rs (github_frewsxcv, and a chunk of 0x11 bytes)
Hello == <<"h", "e", "l", "l", "o", " ", "w", "o", "r", "l", "d", "!", "!", "!">>
Long == [i \in 1..17 |-> "a"]
TestVectors ==
    {[body |-> Hello, sizes |-> <<3, 11>>], [body |-> Long, sizes |-> <<17>>]}

EncodedBodies ==
    {e \in [body : SeqsUpTo(BodyBytes, MaxBody),
            sizes : UNION {Cuts(n) : n \in 0..MaxBody}] :
        e.sizes \in Cuts(Len(e.body))} \cup TestVectors

-----------------------------------------------------------------------------
(* The decoder driven alone, as the tests of read-chunks.rs drive it *)

NoChunks == ReadStreamChunks_new
NoSend == [state |-> "None"]
NoFollow == [state |-> "None"]
NoLog == [eof |-> FALSE, written |-> <<>>, seed |-> -1, redirects |-> 0]

InitChunks ==
    /\ \E e \in EncodedBodies, upper \in BOOLEAN, checks \in BOOLEAN :
          /\ env = [body |-> e.body, sizes |-> e.sizes, upper |-> upper,
                    checks |-> checks]
          /\ wire = EncodeChunks(e.body, e.sizes, upper)
    /\ chunks = ReadStreamChunks_new
    /\ send = NoSend
    /\ follow = NoFollow
    /\ out = ResNew
    /\ log = NoLog

\* the byte counts a read may complete with while the transport is open: at
\* least one byte, at most the buffer's capacity and what the peer has sent;
\* short reads of up to MaxRead bytes, or everything at once
ReadSizes(cap, avail) ==
    LET most == IF cap.limited THEN Min(cap.n, Len(avail)) ELSE Len(avail)
    IN  {n \in 1..most : n <= MaxRead \/ n = most}

\* a call of resume has returned r: the coroutine's new state and its result
ChunksResumed(r) == chunks' = r.c /\ out' = r.ret

\* the first call of resume, with no argument
ChunksStart ==
    /\ out.kind = "New"
    /\ ChunksResumed(ReadStreamChunks_resume(chunks, None, env.checks))
    /\ UNCHANGED <<send, follow, wire, env, log>>

\* the driver fulfils the read with the next n bytes of the transport
ChunksFulfil ==
    /\ out.kind = "Io"
    /\ \E n \in ReadSizes(out.val, wire) :
          /\ ChunksResumed(ReadStreamChunks_resume(chunks, ReadDone(Slice(wire, 0, n)),
                                                   env.checks))
          /\ wire' = From(wire, n)
    /\ UNCHANGED <<send, follow, env, log>>

\* the transport is closed: the read completes with 0 bytes
ChunksEof ==
    /\ out.kind = "Io"
    /\ ChunksResumed(ReadStreamChunks_resume(chunks, ReadDone(<<>>), env.checks))
    /\ log' = [log EXCEPT !.eof = TRUE]
    /\ UNCHANGED <<send, follow, wire, env>>

NextChunks == ChunksStart \/ ChunksFulfil \/ ChunksEof

SpecChunks == InitChunks /\ [][NextChunks]_vars

-----------------------------------------------------------------------------
\* C1: a body encoded by the reference encoder (any cut into non-empty
\* chunks, either letter case of the sizes) and delivered in reads of any
\* sizes is decoded to itself: no resume fails while the transport is open,
\* an Ok carries the original body, and the resume that receives the last
\* encoded byte returns Ok.
C1_RoundTrip ==
    /\ out.kind = "Ok" => out.val = env.body
    /\ ~log.eof => out.kind \in {"New", "Io", "Ok"}
    /\ (~log.eof /\ wire = <<>>) => out.kind = "Ok"

\* a body holding CR LF, cut in two chunks, has been decoded
C1_Witness ==
    /\ out.kind = "Ok"
    /\ Len(env.sizes) >= 2
    /\ Find(env.body, CRLF) >= 0

-----------------------------------------------------------------------------
(* http's data types, as far as SendHttp and FollowHttpRedirects use them *)

LowerLetters == <<"a", "b", "c", "d", "e", "f", "g", "h", "i", "j", "k", "l", "m", "n", "o", "p", "q", "r", "s", "t", "u", "v", "w", "x", "y", "z">>
UpperLetters == <<"A", "B", "C", "D", "E", "F", "G", "H", "I", "J", "K", "L", "M", "N", "O", "P", "Q", "R", "S", "T", "U", "V", "W", "X", "Y", "Z">>

\* HeaderName::from_bytes folds the name to lower case
ToLowerByte(c) ==
    LET hits == {i \in 1..Len(UpperLetters) : UpperLetters[i] = c}
    IN  IF hits = {} THEN c ELSE LowerLetters[CHOOSE i \in hits : TRUE]

ToLower(s) == [i \in 1..Len(s) |-> ToLowerByte(s[i])]

\* http::header::{CONNECTION, CONTENT_LENGTH, TRANSFER_ENCODING, LOCATION}
CONNECTION == <<"c", "o", "n", "n", "e", "c", "t", "i", "o", "n">>
CONTENT_LENGTH == <<"c", "o", "n", "t", "e", "n", "t", "-", "l", "e", "n", "g", "t", "h">>
TRANSFER_ENCODING == <<"t", "r", "a", "n", "s", "f", "e", "r", "-", "e", "n", "c", "o", "d", "i", "n", "g">>
LOCATION == <<"l", "o", "c", "a", "t", "i", "o", "n">>

\* an Option: NoneOf, or Some(v)
NoneOf == [some |-> FALSE, v |-> <<>>]
Some(v) == [some |-> TRUE, v |-> v]

\* a Uri: scheme and authority are Options, path_and_query is the (possibly
\* empty) text that follows them
Uri(scheme, authority, path_and_query) ==
    [scheme |-> scheme, authority |-> authority, path_and_query |-> path_and_query]

\* Uri::path: the path_and_query up to the '?', "/" when that is empty and
\* the Uri has a path at all
UriPath(uri) ==
    IF uri.path_and_query # <<>> \/ uri.scheme.some THEN
        LET q == MemChr("?", uri.path_and_query)
            ret == IF q < 0 THEN uri.path_and_query
                   ELSE Slice(uri.path_and_query, 0, q)
        IN  IF ret = <<>> THEN <<"/">> ELSE ret
    ELSE <<>>

\* format!("{:?}", version)
VersionDebug(version) ==
    CASE version = "HTTP_10" -> <<"H", "T", "T", "P", "/", "1", ".", "0">>
      [] version = "HTTP_11" -> <<"H", "T", "T", "P", "/", "1", ".", "1">>

\* HeaderMap::get: the first value stored under the name, as an Option
RECURSIVE HeaderGet(_, _)
HeaderGet(headers, name) ==
    IF headers = <<>> THEN NoneOf
    ELSE IF Head(headers).name = name THEN Some(Head(headers).value)
    ELSE HeaderGet(Tail(headers), name)

\* Request::default, what mem::take leaves behind
DefaultRequest ==
    [method |-> <<"G", "E", "T">>, uri |-> Uri(NoneOf, NoneOf, <<"/">>), version |-> "HTTP_11",
     headers |-> <<>>, body |-> <<>>]

-----------------------------------------------------------------------------
(* io_stream's WriteStream, ReadStreamExact and ReadStreamToEnd, by their   *)
(* contracts                                                                *)

\* WriteStream over the bytes w still to write: it asks for a write until
\* all bytes are written; a write of 0 bytes is Eof
WriteStream_resume(w, arg) ==
    IF arg = None THEN [kind |-> "Io", w |-> w]
    ELSE IF arg.kind # "Write" THEN [kind |-> "Err", w |-> w]
    ELSE IF arg.n = 0 THEN [kind |-> "Eof", w |-> w]
    ELSE IF arg.n >= Len(w) THEN [kind |-> "Ok", w |-> <<>>]
    ELSE [kind |-> "Io", w |-> From(w, arg.n)]

ReadStreamExact_new(max) == [max |-> max, buffer |-> <<>>]

ReadStreamExact_extend(r, bytes) == [r EXCEPT !.buffer = @ \o bytes]

\* ReadStreamExact: Ok once exactly max bytes are accumulated; until then it
\* reads, into a buffer no larger than what is missing
RECURSIVE ReadStreamExact_resume(_, _)
ReadStreamExact_read(r, o) ==
    CASE o.kind = "Ok" ->
           ReadStreamExact_resume(ReadStreamExact_extend(r, o.bytes), None)
      [] o.kind = "Io" ->
           [r |-> r,
            ret |-> ResIo("Read", IF r.max > Len(r.buffer)
                                  THEN Capacity(r.max - Len(r.buffer))
                                  ELSE DefaultCapacity)]
      [] o.kind = "Eof" -> [r |-> r, ret |-> ResErr("UnexpectedEof", <<>>)]
      [] OTHER -> [r |-> r, ret |-> ResErr("ReadStream", <<>>)]

ReadStreamExact_resume(r, arg) ==
    IF Len(r.buffer) = r.max THEN
        [r |-> [r EXCEPT !.buffer = <<>>], ret |-> ResOk(r.buffer)]
    ELSE ReadStreamExact_read(r, ReadStream_resume(arg))

ReadStreamToEnd_new == [buffer |-> <<>>]

ReadStreamToEnd_extend(r, bytes) == [r EXCEPT !.buffer = @ \o bytes]

\* ReadStreamToEnd: accumulates every read, Ok with all of it at Eof
RECURSIVE ReadStreamToEnd_resume(_, _)
ReadStreamToEnd_read(r, o) ==
    CASE o.kind = "Ok" ->
           ReadStreamToEnd_resume(ReadStreamToEnd_extend(r, o.bytes), None)
      [] o.kind = "Io" -> [r |-> r, ret |-> ResIo("Read", DefaultCapacity)]
      [] o.kind = "Eof" ->
           [r |-> [r EXCEPT !.buffer = <<>>], ret |-> ResOk(r.buffer)]
      [] OTHER -> [r |-> r, ret |-> ResErr("ReadStream", <<>>)]

ReadStreamToEnd_resume(r, arg) == ReadStreamToEnd_read(r, ReadStream_resume(arg))

-----------------------------------------------------------------------------
(* SendHttp: State::Serialize *)

SkipHeader_Never(key) == FALSE

\* the headers the loop skips: content length, generated later on
SkipHeader(key) == key = CONTENT_LENGTH

\* one header line
HeaderLine(h) ==
    IF SkipHeader(h.name) THEN <<>>
    ELSE h.name \o <<":", " ">> \o h.value \o CRLF

\* the header lines of the request, Content-Length left out
RECURSIVE SerializeHeaders(_)
SerializeHeaders(headers) ==
    IF headers = <<>> THEN <<>>
    ELSE HeaderLine(Head(headers)) \o SerializeHeaders(Tail(headers))

\* the request-target written on the request line
RequestTarget(uri) == UriPath(uri)

\* the Content-Length line that ends the header block, and the empty line
ContentLengthLine(body) ==
    CONTENT_LENGTH \o <<":", " ">> \o UsizeToString(Len(body)) \o CRLF_CRLF

\* the bytes State::Serialize hands to the WriteStream
Serialize(request) ==
    request.method \o <<SP>> \o RequestTarget(request.uri) \o <<SP>>
        \o VersionDebug(request.version) \o CRLF
        \o SerializeHeaders(request.headers)
        \o ContentLengthLine(request.body)
        \o request.body

-----------------------------------------------------------------------------
(* httparse::Response::parse, by its contract: Partial while the bytes are  *)
(* a prefix of a header block, Complete(n) once the block's empty line is   *)
(* in, an error for bytes no header block starts with. Lines end in CRLF.   *)

MaxHeaders == 64

HTAB == "\t"
HTTP_1 == <<"H", "T", "T", "P", "/", "1", ".">>

\* bytes that end a token (RFC 7230 tchar excludes them)
Delimiters ==
    {SP, HTAB, CR, LF, ":", ";", ",", "/", "?", "=", "@", "(", ")", "<", ">",
     "[", "]", "{", "}", "\"", "\\"}

IsToken(c) == c \notin Delimiters

ParsePartial == [status |-> "Partial", n |-> 0, version |-> 0, code |-> 0,
                 headers |-> <<>>, err |-> "-"]
ParseErr(e) == [status |-> "Err", n |-> 0, version |-> 0, code |-> 0,
                headers |-> <<>>, err |-> e]
ParseComplete(n, version, code, headers) ==
    [status |-> "Complete", n |-> n, version |-> version, code |-> code,
     headers |-> headers, err |-> "-"]

Least(S) == CHOOSE i \in S : \A j \in S : i <= j

RECURSIVE TrimEnd(_)
TrimEnd(s) ==
    IF s # <<>> /\ s[Len(s)] \in {SP, HTAB} THEN TrimEnd(Slice(s, 0, Len(s) - 1))
    ELSE s

\* the status line: HTTP/1.x SP 3DIGIT [SP reason] CRLF. Complete(n) here
\* gives the offset of the first header line.
ParseStatusLine(buf) ==
    LET n == Len(buf)
        k == Min(n, Len(HTTP_1))
        rest == From(buf, 12)
        cr == MemChr(CR, rest)
        lf == MemChr(LF, rest)
    IN  IF Slice(buf, 0, k) # Slice(HTTP_1, 0, k) THEN ParseErr("Version")
        ELSE IF n < 8 THEN ParsePartial
        ELSE IF buf[8] \notin {"0", "1"} THEN ParseErr("Version")
        ELSE IF n < 9 THEN ParsePartial
        ELSE IF buf[9] # SP THEN ParseErr("Version")
        ELSE IF \E i \in 10..Min(n, 12) : ToDigit(buf[i], 10) < 0 THEN ParseErr("Status")
        ELSE IF n < 13 THEN ParsePartial
        ELSE IF buf[13] \notin {SP, CR} THEN ParseErr("Status")
        ELSE IF lf >= 0 /\ (cr < 0 \/ lf < cr) THEN ParseErr("NewLine")
        ELSE IF cr < 0 \/ Len(rest) < cr + 2 THEN ParsePartial
        ELSE IF rest[cr + 2] # LF THEN ParseErr("NewLine")
        ELSE ParseComplete(12 + cr + 2, ToDigit(buf[8], 10),
                           ToDigit(buf[10], 10) * 100 + ToDigit(buf[11], 10) * 10
                               + ToDigit(buf[12], 10),
                           <<>>)

\* the header lines from offset p on: name ":" OWS value OWS CRLF, ended by
\* an empty line
RECURSIVE ParseHeaderLines(_, _, _, _)
ParseHeaderLines(buf, p, line, acc) ==
    LET rest == From(buf, p)
        nonTok == {i \in 1..Len(rest) : ~IsToken(rest[i])}
        c == Least(nonTok)
        afterWs == {i \in (c + 1)..Len(rest) : rest[i] \notin {SP, HTAB}}
        v == Least(afterWs)
        ends == {i \in v..Len(rest) : rest[i] \in {CR, LF}}
        e == Least(ends)
    IN  IF rest = <<>> THEN ParsePartial
        ELSE IF rest[1] = CR THEN
            IF Len(rest) < 2 THEN ParsePartial
            ELSE IF rest[2] = LF THEN ParseComplete(p + 2, line.version, line.code, acc)
            ELSE ParseErr("NewLine")
        ELSE IF nonTok = {} THEN ParsePartial
        ELSE IF rest[c] # ":" \/ c = 1 THEN ParseErr("HeaderName")
        ELSE IF afterWs = {} THEN ParsePartial
        ELSE IF ends = {} THEN ParsePartial
        ELSE IF rest[e] = LF THEN ParseErr("HeaderValue")
        ELSE IF Len(rest) < e + 1 THEN ParsePartial
        ELSE IF rest[e + 1] # LF THEN ParseErr("HeaderValue")
        ELSE IF Len(acc) >= MaxHeaders THEN ParseErr("TooManyHeaders")
        ELSE ParseHeaderLines(buf, p + e + 1, line,
                 Append(acc, [name |-> Slice(rest, 0, c - 1),
                              value |-> TrimEnd(SubSeq(rest, v, e - 1))]))

HttpParseLines(buf, line) ==
    IF line.status # "Complete" THEN line
    ELSE ParseHeaderLines(buf, line.n, line, <<>>)

HttpParse(buf) == HttpParseLines(buf, ParseStatusLine(buf))

-----------------------------------------------------------------------------
(* http::response::Builder *)

\* Response::builder()
ResponseBuilder_new ==
    [err |-> FALSE, version |-> "HTTP_11", status |-> 200, headers |-> <<>>]

\* Builder::version, for the versions httparse reports (0 and 1)
BuilderVersion(b, v) ==
    CASE v = 0 -> [b EXCEPT !.version = "HTTP_10"]
      [] v = 1 -> [b EXCEPT !.version = "HTTP_11"]
      [] OTHER -> b

\* Builder::status: StatusCode::from_u16 refuses codes outside 100..999
BuilderStatus(b, code) ==
    IF b.err THEN b
    ELSE IF code < 100 \/ code > 999 THEN [b EXCEPT !.err = TRUE]
    ELSE [b EXCEPT !.status = code]

\* Builder::header for every parsed header, in order; names fold to lower
\* case
BuilderHeaders(b, parsed) ==
    IF b.err THEN b
    ELSE [b EXCEPT !.headers =
             @ \o [i \in 1..Len(parsed) |->
                      [name |-> ToLower(parsed[i].name), value |-> parsed[i].value]]]

\* StatusCode::is_redirection
IsRedirection(status) == 300 <= status /\ status < 400

\* HeaderValue::to_str: only visible ASCII (and tab) converts
HIGH == "<80>"
ToStrOk(value) == \A i \in 1..Len(value) : value[i] # HIGH /\ value[i] \notin {CR, LF}

-----------------------------------------------------------------------------
(* SendHttp *)

NoRead == [buffer |-> <<>>]

SendHttp_new(request) ==
    [request |-> request, state |-> "Serialize", is_http_10 |-> FALSE,
     is_conn_closed |-> FALSE, write |-> <<>>, headers |-> <<>>,
     response |-> ResponseBuilder_new, read |-> NoRead]

SendOk_Taken(s, response, body, keep_alive) ==
    IF response.err THEN
        [s |-> s, arg |-> None, ret |-> ResPanic("unwrap on Err")]
    ELSE
        [s |-> [s EXCEPT !.request = DefaultRequest,
                         !.response = ResponseBuilder_new],
         arg |-> None,
         ret |-> ResOk([request |-> DefaultRequest,
                        response |-> [version |-> response.version,
                                      status |-> response.status,
                                      headers |-> response.headers,
                                      body |-> body],
                        keep_alive |-> keep_alive])]

\* SendHttpOk, built where resume breaks with Ok: Builder::body(..).unwrap()
\* panics on a builder that holds an error
SendOk(s, response, body, keep_alive) ==
    IF response.err THEN
        [s |-> s, arg |-> None, ret |-> ResPanic("unwrap on Err")]
    ELSE
        [s |-> [s EXCEPT !.request = DefaultRequest,
                         !.response = ResponseBuilder_new],
         arg |-> None,
         ret |-> ResOk([request |-> s.request,
                        response |-> [version |-> response.version,
                                      status |-> response.status,
                                      headers |-> response.headers,
                                      body |-> body],
                        keep_alive |-> keep_alive])]

\* State::Serialize
SendSerialize(s, arg) ==
    [s |-> [s EXCEPT !.write = Serialize(s.request), !.state = "Send"],
     arg |-> arg, ret |-> ResContinue]

SendWritten_Early(s, w) ==
    CASE w.kind \in {"Ok", "Io"} ->
           [s |-> [s EXCEPT !.write = w.w, !.state = "ReceiveHeaders",
                            !.headers = <<>>],
            arg |-> None, ret |-> ResContinue]
      [] w.kind = "Eof" ->
           [s |-> s, arg |-> None, ret |-> ResErr("UnexpectedEof", <<>>)]
      [] OTHER -> [s |-> s, arg |-> None, ret |-> ResErr("WriteStream", <<>>)]

\* State::Send, once the WriteStream sub-coroutine has answered w
SendWritten(s, w) ==
    CASE w.kind = "Ok" ->
           [s |-> [s EXCEPT !.write = w.w, !.state = "ReceiveHeaders",
                            !.headers = <<>>],
            arg |-> None, ret |-> ResContinue]
      [] w.kind = "Io" ->
           [s |-> [s EXCEPT !.write = w.w], arg |-> None,
            ret |-> ResIo("Write", w.w)]
      [] w.kind = "Eof" ->
           [s |-> s, arg |-> None, ret |-> ResErr("UnexpectedEof", <<>>)]
      [] OTHER -> [s |-> s, arg |-> None, ret |-> ResErr("WriteStream", <<>>)]

\* State::Send
SendSend(s, arg) == SendWritten(s, WriteStream_resume(s.write, arg))

CLOSE == <<"c", "l", "o", "s", "e">>
CHUNKED == <<"c", "h", "u", "n", "k", "e", "d">>

\* is_conn_closed, from the value conn of the Connection header or else from
\* the version
ConnClosed(conn, is_http_10) == IF conn.some THEN conn.v = CLOSE ELSE is_http_10

IsConnClosed(headers, is_http_10) ==
    ConnClosed(HeaderGet(headers, CONNECTION), is_http_10)

FramingOf_LengthFirst(encoding, len) ==
    IF len.some /\ ToStrOk(len.v) /\ FromStrRadix(len.v, 10) >= 0 THEN "ReceiveLengthedBody"
    ELSE IF encoding.some /\ encoding.v = CHUNKED THEN "ReceiveChunkedBody"
    ELSE "ReceiveBody"

FramingOf_Positive(encoding, len) ==
    IF encoding.some /\ encoding.v = CHUNKED THEN "ReceiveChunkedBody"
    ELSE IF len.some /\ ToStrOk(len.v) /\ FromStrRadix(len.v, 10) > 0
         THEN "ReceiveLengthedBody"
    ELSE "ReceiveBody"

\* the body framing selected by the values of the Transfer-Encoding and
\* Content-Length headers
FramingOf(encoding, len) ==
    IF encoding.some /\ encoding.v = CHUNKED THEN "ReceiveChunkedBody"
    ELSE IF len.some /\ ToStrOk(len.v) /\ FromStrRadix(len.v, 10) >= 0
         THEN "ReceiveLengthedBody"
    ELSE "ReceiveBody"

\* the body framing the response headers select
Framing(headers) ==
    FramingOf(HeaderGet(headers, TRANSFER_ENCODING), HeaderGet(headers, CONTENT_LENGTH))

BodyReader_OneMore(framing, headers, body) ==
    CASE framing = "ReceiveChunkedBody" ->
            ReadStreamChunks_extend(ReadStreamChunks_new, body)
      [] framing = "ReceiveLengthedBody" ->
            ReadStreamExact_extend(
                ReadStreamExact_new(
                    FromStrRadix(HeaderGet(headers, CONTENT_LENGTH).v, 10) + 1),
                body)
      [] framing = "ReceiveBody" ->
            ReadStreamToEnd_extend(ReadStreamToEnd_new, body)

\* the body sub-coroutine of the selected framing, seeded with the bytes
\* read beyond the header block
BodyReader(framing, headers, body) ==
    CASE framing = "ReceiveChunkedBody" ->
            ReadStreamChunks_extend(ReadStreamChunks_new, body)
      [] framing = "ReceiveLengthedBody" ->
            ReadStreamExact_extend(
                ReadStreamExact_new(
                    FromStrRadix(HeaderGet(headers, CONTENT_LENGTH).v, 10)),
                body)
      [] framing = "ReceiveBody" ->
            ReadStreamToEnd_extend(ReadStreamToEnd_new, body)

\* the response builder filled from the parsed version, code and headers
BuildResponse(parsed) ==
    BuilderHeaders(
        BuilderStatus(BuilderVersion(ResponseBuilder_new, parsed.version),
                      parsed.code),
        parsed.headers)

\* State::ReceiveHeaders, once the builder is filled and the bytes beyond the
\* header block are drained into body: Ok at once when the builder holds no
\* headers, else the body state the headers select
SendSelect(s, response, body, framing) ==
    IF response.err THEN SendOk(s, response, body, ~s.is_http_10)
    ELSE [s |-> [s EXCEPT !.is_conn_closed =
                              IsConnClosed(response.headers, s.is_http_10),
                          !.response = response,
                          !.state = framing,
                          !.read = BodyReader(framing, response.headers, body)],
          arg |-> None, ret |-> ResContinue]

SendBuilt(s, response, body) ==
    SendSelect(s, response, body, Framing(response.headers))

\* State::ReceiveHeaders, once the parser reports Complete(n)
SendDispatch(s, parsed) ==
    SendBuilt([s EXCEPT !.is_http_10 = IF parsed.version = 0 THEN TRUE ELSE @,
                        !.headers = <<>>],
              BuildResponse(parsed), From(s.headers, parsed.n))

SendParsed_Lenient(s, parsed) ==
    CASE parsed.status \in {"Partial", "Err"} ->
           [s |-> s, arg |-> None, ret |-> ResContinue]
      [] parsed.status = "Complete" -> SendDispatch(s, parsed)

\* State::ReceiveHeaders, once the received bytes are appended and parsed
SendParsed(s, parsed) ==
    CASE parsed.status = "Partial" -> [s |-> s, arg |-> None, ret |-> ResContinue]
      [] parsed.status = "Err" ->
           [s |-> s, arg |-> None, ret |-> ResErr("ParseResponseHeaders", parsed.err)]
      [] parsed.status = "Complete" -> SendDispatch(s, parsed)

SendExtended(s) == SendParsed(s, HttpParse(s.headers))

SendHeadersRead_Resend(s, o) ==
    CASE o.kind = "Io" ->
           [s |-> s, arg |-> None, ret |-> ResIo("Read", DefaultCapacity)]
      [] o.kind = "Eof" ->
           [s |-> s, arg |-> None, ret |-> ResErr("UnexpectedEof", <<>>)]
      [] o.kind = "Err" ->
           [s |-> s, arg |-> None, ret |-> ResErr("ReadStream", <<>>)]
      [] o.kind = "Ok" ->
           [s |-> [s EXCEPT !.state = "Send", !.write = Serialize(s.request)],
            arg |-> None, ret |-> ResContinue]

\* State::ReceiveHeaders, once the ReadStream sub-coroutine has answered o
SendHeadersRead(s, o) ==
    CASE o.kind = "Io" ->
           [s |-> s, arg |-> None, ret |-> ResIo("Read", DefaultCapacity)]
      [] o.kind = "Eof" ->
           [s |-> s, arg |-> None, ret |-> ResErr("UnexpectedEof", <<>>)]
      [] o.kind = "Err" ->
           [s |-> s, arg |-> None, ret |-> ResErr("ReadStream", <<>>)]
      [] o.kind = "Ok" -> SendExtended([s EXCEPT !.headers = @ \o o.bytes])

\* State::ReceiveHeaders
SendReceiveHeaders(s, arg) == SendHeadersRead(s, ReadStream_resume(arg))

\* the three body states: the sub-coroutine's answer either ends the exchange
\* or is handed to the driver
SendBody(s, r, wrapped) ==
    CASE r.ret.kind = "Ok" ->
            SendOk([s EXCEPT !.read = r.r], s.response, r.ret.val, ~s.is_conn_closed)
      [] r.ret.kind = "Io" ->
            [s |-> [s EXCEPT !.read = r.r], arg |-> None, ret |-> r.ret]
      [] r.ret.kind = "Err" ->
            [s |-> [s EXCEPT !.read = r.r], arg |-> None,
             ret |-> ResErr(wrapped, r.ret.io)]
      [] OTHER -> [s |-> [s EXCEPT !.read = r.r], arg |-> None, ret |-> r.ret]

\* the answer of ReadStreamChunks::resume, in the shape of the other body
\* sub-coroutines' answers
ChunksAnswer(r) == [r |-> r.c, ret |-> r.ret]

\* State::ReceiveChunkedBody
SendReceiveChunkedBody(s, arg, checks) ==
    SendBody(s, ChunksAnswer(ReadStreamChunks_resume(s.read, arg, checks)),
             "ReadStreamChunks")

\* State::ReceiveLengthedBody
SendReceiveLengthedBody(s, arg) ==
    SendBody(s, ReadStreamExact_resume(s.read, arg), "ReadStreamExact")

\* State::ReceiveBody
SendReceiveBody(s, arg) ==
    SendBody(s, ReadStreamToEnd_resume(s.read, arg), "ReadStreamToEnd")

\* one turn of the loop of resume
SendStep(s, arg, checks) ==
    CASE s.state = "Serialize" -> SendSerialize(s, arg)
      [] s.state = "Send" -> SendSend(s, arg)
      [] s.state = "ReceiveHeaders" -> SendReceiveHeaders(s, arg)
      [] s.state = "ReceiveChunkedBody" -> SendReceiveChunkedBody(s, arg, checks)
      [] s.state = "ReceiveLengthedBody" -> SendReceiveLengthedBody(s, arg)
      [] s.state = "ReceiveBody" -> SendReceiveBody(s, arg)

\* SendHttp::resume: the loop runs until a turn returns
RECURSIVE SendHttp_resume(_, _, _)
SendLoop(t, checks) ==
    IF t.ret.kind = "Continue" THEN SendHttp_resume(t.s, t.arg, checks)
    ELSE [s |-> t.s, ret |-> t.ret]

SendHttp_resume(s, arg, checks) == SendLoop(SendStep(s, arg, checks), checks)

-----------------------------------------------------------------------------
(* The peer of one exchange: the requests a caller builds, the responses a  *)
(* server sends                                                             *)

\* a request, built as http::Request::builder() builds it; the Uri is given
\* by its components
MakeRequest(method, scheme, authority, path, query, version, headers, body) ==
    [method |-> method,
     uri |-> Uri(scheme, authority,
                 path \o (IF query.some THEN <<"?">> \o query.v ELSE <<>>)),
     version |-> version, headers |-> headers, body |-> body]

Host == [name |-> <<"h", "o", "s", "t">>, value |-> <<"h">>]
Accept == [name |-> <<"a", "c", "c", "e", "p", "t">>, value |-> <<"*", "/", "*">>]
ContentLength5 == [name |-> CONTENT_LENGTH, value |-> <<"5">>]
ContentLength7 == [name |-> CONTENT_LENGTH, value |-> <<"7">>]

RequestHeaderLists ==
    {<<>>, <<Host>>, <<ContentLength5>>, <<Host, ContentLength5, Accept>>,
     <<ContentLength5, ContentLength7, Host>>}

\* the targets of the requests: origin-form and absolute, with and without
\* a query, with and without a path
RequestTargets ==
    {[scheme |-> NoneOf, authority |-> NoneOf, path |-> <<"/">>, query |-> NoneOf],
     [scheme |-> NoneOf, authority |-> NoneOf, path |-> <<"/", "a">>, query |-> Some(<<"q", "=", "1">>)],
     [scheme |-> Some(<<"h", "t", "t", "p">>), authority |-> Some(<<"h">>), path |-> <<"/", "a">>, query |-> NoneOf],
     [scheme |-> Some(<<"h", "t", "t", "p">>), authority |-> Some(<<"h">>), path |-> <<"/", "a">>, query |-> Some(<<"q", "=", "1">>)],
     [scheme |-> Some(<<"h", "t", "t", "p", "s">>), authority |-> Some(<<"h">>), path |-> <<>>, query |-> NoneOf]}

RequestBodies == {<<>>, <<"a">>, Hello}

Requests ==
    {[target |-> t,
      request |-> MakeRequest(m, t.scheme, t.authority, t.path, t.query, v, h, b)] :
        m \in {<<"G", "E", "T">>, <<"P", "O", "S", "T">>}, t \in RequestTargets, v \in {"HTTP_10", "HTTP_11"},
        h \in RequestHeaderLists, b \in RequestBodies}

PlainRequest ==
    [target |-> [scheme |-> NoneOf, authority |-> NoneOf, path |-> <<"/">>,
                 query |-> NoneOf],
     request |-> MakeRequest(<<"G", "E", "T">>, NoneOf, NoneOf, <<"/">>, NoneOf, "HTTP_11",
                             <<Host>>, <<>>)]

\* a response: what the server puts on the wire
Reply(version, code, headers, payload) ==
    [version |-> version, code |-> code, headers |-> headers, payload |-> payload]

RECURSIVE RenderHeaders(_)
RenderHeaders(headers) ==
    IF headers = <<>> THEN <<>>
    ELSE Head(headers).name \o <<":", " ">> \o Head(headers).value \o CRLF
            \o RenderHeaders(Tail(headers))

\* the header block of a response
RenderHead(r) ==
    HTTP_1 \o <<DigitChars[r.version + 1]>> \o <<SP>>
        \o <<DigitChars[(r.code \div 100) + 1], DigitChars[((r.code \div 10) % 10) + 1],
             DigitChars[(r.code % 10) + 1]>>
        \o <<" ", "O", "K">> \o CRLF \o RenderHeaders(r.headers) \o CRLF

Render(r) == RenderHead(r) \o r.payload

ConnectionHeaders ==
    {<<>>} \cup {<<[name |-> <<"C", "o", "n", "n", "e", "c", "t", "i", "o", "n">>, value |-> v]>> :
                    v \in {<<"c", "l", "o", "s", "e">>, <<"k", "e", "e", "p", "-", "a", "l", "i", "v", "e">>, <<"u", "p", "g", "r", "a", "d", "e">>}}

TransferEncodingHeaders ==
    {<<>>} \cup {<<[name |-> <<"T", "r", "a", "n", "s", "f", "e", "r", "-", "E", "n", "c", "o", "d", "i", "n", "g">>, value |-> v]>> :
                    v \in {<<"c", "h", "u", "n", "k", "e", "d">>, <<"g", "z", "i", "p">>}}

ContentLengthHeaders ==
    {<<>>} \cup {<<[name |-> <<"C", "o", "n", "t", "e", "n", "t", "-", "L", "e", "n", "g", "t", "h">>, value |-> v]>> :
                    v \in {<<"0">>, <<"2">>, <<"x">>}}

\* what follows the header block: nothing, plain bytes, or a chunked body
Payloads ==
    {<<>>, <<"a">>, <<"a", "b">>, <<"a", "b", "c">>,
     EncodeChunks(<<>>, <<>>, FALSE), EncodeChunks(<<"a">>, <<1>>, FALSE),
     EncodeChunks(<<"a", "b">>, <<1, 1>>, FALSE)}

\* a header list and a payload for each body framing
ChunkedFraming ==
    [headers |-> <<[name |-> <<"T", "r", "a", "n", "s", "f", "e", "r", "-", "E", "n", "c", "o", "d", "i", "n", "g">>,
                    value |-> <<"c", "h", "u", "n", "k", "e", "d">>]>>,
     payload |-> EncodeChunks(<<"a", "b">>, <<1, 1>>, FALSE)]
LengthedFraming ==
    [headers |-> <<[name |-> <<"C", "o", "n", "t", "e", "n", "t", "-", "L", "e", "n", "g", "t", "h">>,
                    value |-> <<"2">>]>>,
     payload |-> <<"a", "b">>]
ToEndFraming == [headers |-> <<>>, payload |-> <<"a", "b">>]

\* every version and Connection header, over each body framing
ConnectionReplies ==
    {Reply(v, 200, c \o f.headers, f.payload) :
        v \in {0, 1}, c \in ConnectionHeaders,
        f \in {ChunkedFraming, LengthedFraming, ToEndFraming}}

\* every combination of framing headers, over every payload
FramingReplies ==
    {Reply(1, 200, t \o l, p) :
        t \in TransferEncodingHeaders, l \in ContentLengthHeaders, p \in Payloads}

Replies200 == ConnectionReplies \cup FramingReplies

EmptyReply ==
    Reply(1, 200, <<[name |-> <<"C", "o", "n", "t", "e", "n", "t", "-", "L", "e", "n", "g", "t", "h">>, value |-> <<"0">>]>>, <<>>)

\* header blocks no parser accepts: a version that is not 1.0 or 1.1, a
\* header name with a space
BadReplies ==
    {Reply(2, 200, <<>>, <<>>),
     Reply(1, 200, <<[name |-> <<"X", " ", "Y">>, value |-> <<"1">>]>>, <<>>)}

\* a header block the parser accepts, with a status code no StatusCode holds
LowStatusReply == Reply(1, 99, EmptyReply.headers, <<>>)

\* the replies of the peer in each kind of run
Replies(mode) ==
    CASE mode = "requests" ->
            {EmptyReply, Reply(1, 200, ChunkedFraming.headers, ChunkedFraming.payload),
             Reply(1, 200, ToEndFraming.headers, ToEndFraming.payload)}
      [] mode = "replies" -> Replies200 \cup BadReplies \cup {LowStatusReply}

NoReply == Reply(1, 0, <<>>, <<>>)

-----------------------------------------------------------------------------
(* One exchange driven to its end *)

\* the byte counts a write may complete with: short writes of up to
\* MaxWrite bytes, or everything at once
WriteSizes(bytes) == {n \in 1..Len(bytes) : n <= MaxWrite \/ n = Len(bytes)}

InitExchange(mode, requests) ==
    /\ \E r \in requests :
          /\ env = [mode |-> mode, target |-> r.target, request |-> r.request,
                    reply |-> NoReply, checks |-> TRUE]
          /\ send = SendHttp_new(r.request)
    /\ chunks = NoChunks
    /\ follow = NoFollow
    /\ out = ResNew
    /\ wire = <<>>
    /\ log = NoLog

InitRequests == InitExchange("requests", Requests)

InitReplies == InitExchange("replies", {PlainRequest})

\* a call of resume has returned r: the coroutine's new state and its result
SendResumed(r) == send' = r.s /\ out' = r.ret

\* the first call of resume, with no argument
SendStart ==
    /\ out.kind = "New"
    /\ SendResumed(SendHttp_resume(send, None, env.checks))
    /\ UNCHANGED <<chunks, follow, wire, env, log>>

\* the driver writes n of the bytes of the write intent; the server answers
\* once it has the whole request
SendWrite ==
    /\ out.kind = "Io" /\ out.io = "Write"
    /\ \E n \in WriteSizes(out.val) :
          /\ SendResumed(SendHttp_resume(send, WriteDone(n), env.checks))
          /\ log' = [log EXCEPT !.written = @ \o Slice(out.val, 0, n)]
          /\ IF n = Len(out.val)
             THEN \E reply \in Replies(env.mode) :
                     /\ env' = [env EXCEPT !.reply = reply]
                     /\ wire' = Render(reply)
             ELSE UNCHANGED <<env, wire>>
    /\ UNCHANGED <<chunks, follow>>

\* the transport is closed for writing: the write completes with 0 bytes
SendWriteEof ==
    /\ out.kind = "Io" /\ out.io = "Write"
    /\ SendResumed(SendHttp_resume(send, WriteDone(0), env.checks))
    /\ log' = [log EXCEPT !.eof = TRUE]
    /\ UNCHANGED <<chunks, follow, wire, env>>

\* the driver fulfils the read with the next n bytes of the transport
SendRead ==
    /\ out.kind = "Io" /\ out.io = "Read"
    /\ \E n \in ReadSizes(out.val, wire) :
          /\ SendResumed(SendHttp_resume(send, ReadDone(Slice(wire, 0, n)), env.checks))
          /\ wire' = From(wire, n)
          /\ log' = IF send.state = "ReceiveHeaders" /\ send'.state # "ReceiveHeaders"
                    THEN [log EXCEPT !.seed = Len(env.reply.payload) - Len(wire')]
                    ELSE log
    /\ UNCHANGED <<chunks, follow, env>>

\* the peer has closed the transport: the read completes with 0 bytes
SendReadEof ==
    /\ out.kind = "Io" /\ out.io = "Read"
    /\ SendResumed(SendHttp_resume(send, ReadDone(<<>>), env.checks))
    /\ log' = [log EXCEPT !.eof = TRUE]
    /\ UNCHANGED <<chunks, follow, wire, env>>

NextSend == SendStart \/ SendWrite \/ SendWriteEof \/ SendRead \/ SendReadEof

SpecRequests == InitRequests /\ [][NextSend]_vars

SpecReplies == InitReplies /\ [][NextSend]_vars

-----------------------------------------------------------------------------
(* What is checked of the exchange *)

\* the lines of a text whose lines are separated by CRLF
RECURSIVE SplitCrlf(_)
SplitCrlf(s) ==
    IF Find(s, CRLF) < 0 THEN <<s>>
    ELSE <<Slice(s, 0, Find(s, CRLF))>> \o SplitCrlf(From(s, Find(s, CRLF) + 2))

\* the whole request as the transport sees it, while the write is under way
Sent == log.written \o out.val

Writing == out.kind = "Io" /\ out.io = "Write"

SentLines == SplitCrlf(Slice(Sent, 0, Find(Sent, CRLF_CRLF)))

SentBody == From(Sent, Find(Sent, CRLF_CRLF) + 4)

\* the path of the request's target: "/" when the target names none
PathOf(target) == IF target.path = <<>> THEN <<"/">> ELSE target.path

\* the path and query of the request's target
PathAndQueryOf(target) ==
    PathOf(target) \o (IF target.query.some THEN <<"?">> \o target.query.v ELSE <<>>)

\* the name of a header line, in lower case
LineName(line) ==
    IF MemChr(":", line) < 0 THEN <<>> ELSE ToLower(Slice(line, 0, MemChr(":", line)))

\* C2: the bytes Serialize produces start with "method SP path SP version
\* CRLF", hold exactly one Content-Length line, which is the last header line
\* and carries the decimal length of the body, whatever Content-Length headers
\* the caller supplied; the body follows the empty line unchanged.
C2_Serialize ==
    Writing =>
        /\ Find(Sent, CRLF_CRLF) >= 0
        /\ SentLines[1] = env.request.method \o <<SP>> \o PathOf(env.target) \o <<SP>>
                            \o VersionDebug(env.request.version)
        /\ Cardinality({i \in 2..Len(SentLines) : LineName(SentLines[i]) = <<"c", "o", "n", "t", "e", "n", "t", "-", "l", "e", "n", "g", "t", "h">>}) = 1
        /\ SentLines[Len(SentLines)] =
              <<"c", "o", "n", "t", "e", "n", "t", "-", "l", "e", "n", "g", "t", "h", ":", " ">> \o UsizeToString(Len(env.request.body))
        /\ SentBody = env.request.body

C2_Witness ==
    /\ Writing /\ log.written # <<>>
    /\ Cardinality({i \in 1..Len(env.request.headers) :
                       env.request.headers[i].name = CONTENT_LENGTH}) = 2
    /\ Len(env.request.body) = 14

\* the request-target of the request line: what stands between the method
\* and the version
SentTarget ==
    Slice(SentLines[1], MemChr(SP, SentLines[1]) + 1, Len(SentLines[1]) - 9)

\* C3: the request-target on the request line is the URI's path followed by
\* "?" and the query when there is a query; scheme and authority are never
\* on the request line.
C3_PathAndQuery == Writing => SentTarget = PathAndQueryOf(env.target)

\* the replies' headers, looked up as a server states them
ReplyHas(reply, name, value) ==
    \E i \in 1..Len(reply.headers) :
        ToLower(reply.headers[i].name) = name /\ reply.headers[i].value = value

ReplyNames(reply) == {ToLower(reply.headers[i].name) : i \in 1..Len(reply.headers)}

\* C4: on Ok, keep_alive is true exactly when the response is HTTP/1.1
\* without "Connection: close", or HTTP/1.0 with "Connection: keep-alive".
C4_KeepAlive ==
    out.kind = "Ok" =>
        (out.val.keep_alive <=>
            \/ env.reply.version = 1 /\ ~ReplyHas(env.reply, CONNECTION, <<"c", "l", "o", "s", "e">>)
            \/ env.reply.version = 0 /\ ReplyHas(env.reply, CONNECTION, <<"k", "e", "e", "p", "-", "a", "l", "i", "v", "e">>))

BodyStates == {"ReceiveChunkedBody", "ReceiveLengthedBody", "ReceiveBody"}

\* a non-negative decimal number
IsDecimal(v) == v # <<>> /\ \A i \in 1..Len(v) : v[i] \in {DigitChars[d] : d \in 1..10}

\* the framing the reply's headers call for: chunked first, then a decimal
\* Content-Length, else reading to the end
ExpectedFraming(reply) ==
    IF ReplyHas(reply, TRANSFER_ENCODING, <<"c", "h", "u", "n", "k", "e", "d">>) THEN "ReceiveChunkedBody"
    ELSE IF \E i \in 1..Len(reply.headers) :
                /\ ToLower(reply.headers[i].name) = CONTENT_LENGTH
                /\ IsDecimal(reply.headers[i].value)
         THEN "ReceiveLengthedBody"
    ELSE "ReceiveBody"

\* the bytes the transport has delivered beyond the header block
Delivered == Slice(env.reply.payload, 0, Len(env.reply.payload) - Len(wire))

\* the chunked decoder run alone, all the bytes coming in one read
Decode(bytes) ==
    ReadStreamChunks_resume(ReadStreamChunks_new,
                            IF bytes = <<>> THEN None ELSE ReadDone(bytes), TRUE)

C6_ChunkedBody ==
    (send.state = "ReceiveChunkedBody" /\ ~log.eof /\ out.kind # "Io") =>
        /\ out.kind = Decode(Delivered).ret.kind
        /\ out.kind = "Ok" => out.val.response.body = Decode(env.reply.payload).ret.val

C6_Witness ==
    /\ send.state = "ReceiveChunkedBody" /\ out.kind = "Ok"
    /\ 0 < log.seed /\ log.seed < Len(env.reply.payload)
    /\ out.val.response.body = <<"a", "b">>

\* the decimal value of a Content-Length header of the reply
ReplyLengths(reply) ==
    {FromStrRadix(reply.headers[i].value, 10) : 
        i \in {j \in 1..Len(reply.headers) :
                  /\ ToLower(reply.headers[j].name) = CONTENT_LENGTH
                  /\ IsDecimal(reply.headers[j].value)}}

-----------------------------------------------------------------------------
(* http::Uri, parsed from text, taken apart and put together *)

UriOk(uri) == [err |-> FALSE, v |-> uri]
UriErr == [err |-> TRUE, v |-> Uri(NoneOf, NoneOf, <<>>)]

SCHEME_SEP == <<":", "/", "/">>

\* the offset where the authority ends: the first '/' or '?', else the end
AuthorityEnd(s) ==
    IF \E i \in 1..Len(s) : s[i] \in {"/", "?"}
    THEN Least({i \in 1..Len(s) : s[i] \in {"/", "?"}}) - 1
    ELSE Len(s)

\* an absolute URI, cut at the offset k of its "://"
UriParseAbsolute(s, k, rest) ==
    IF k = 0 \/ AuthorityEnd(rest) = 0 THEN UriErr
    ELSE UriOk(Uri(Some(Slice(s, 0, k)), Some(Slice(rest, 0, AuthorityEnd(rest))),
                   From(rest, AuthorityEnd(rest))))

\* str::parse::<Uri>: a path (origin form), an absolute URI, or an authority
\* alone; the empty text and text with bytes no URI holds are refused
UriParse(s) ==
    IF s = <<>> \/ \E i \in 1..Len(s) : s[i] \in {SP, HTAB, CR, LF, HIGH} THEN UriErr
    ELSE IF s[1] = "/" THEN UriOk(Uri(NoneOf, NoneOf, s))
    ELSE IF Find(s, SCHEME_SEP) >= 0
         THEN UriParseAbsolute(s, Find(s, SCHEME_SEP), From(s, Find(s, SCHEME_SEP) + 3))
    ELSE IF AuthorityEnd(s) = Len(s) THEN UriOk(Uri(NoneOf, Some(s), <<>>))
    ELSE UriErr

\* Uri::into_parts: the path and query is None for a Uri that has no path
UriIntoParts(uri) ==
    [scheme |-> uri.scheme, authority |-> uri.authority,
     path_and_query |-> IF uri.path_and_query # <<>> \/ uri.scheme.some
                        THEN Some(uri.path_and_query) ELSE NoneOf]

\* Uri::from_parts refuses a scheme without authority or without path, and
\* an authority with a path but without scheme
UriFromParts(parts) ==
    IF parts.scheme.some /\ (~parts.authority.some \/ ~parts.path_and_query.some)
    THEN UriErr
    ELSE IF ~parts.scheme.some /\ parts.authority.some /\ parts.path_and_query.some
    THEN UriErr
    ELSE UriOk(Uri(parts.scheme, parts.authority, parts.path_and_query.v))

-----------------------------------------------------------------------------
(* FollowHttpRedirects *)

InitialRemaining == 4

FollowHttpRedirects_new_Five(s) ==
    [send |-> s, remaining |-> InitialRemaining + 1, made |-> 1]

\* new: made counts the SendHttp coroutines this one has held
FollowHttpRedirects_new(s) ==
    [send |-> s, remaining |-> InitialRemaining, made |-> 1]

ResReset(uri) == [kind |-> "Reset", io |-> "-", val |-> uri]

\* the parts of the request's Uri with those of the Location laid over
MergeParts(cur_uri_parts, uri_parts) ==
    [scheme |-> IF uri_parts.scheme.some THEN uri_parts.scheme
                ELSE cur_uri_parts.scheme,
     authority |-> IF uri_parts.authority.some THEN uri_parts.authority
                   ELSE cur_uri_parts.authority,
     path_and_query |-> uri_parts.path_and_query]

NeedsReset_IgnoreAuthority(keep_alive, same_scheme, same_authority) ==
    ~keep_alive \/ ~same_scheme

\* whether the stream has to be re-created
NeedsReset(keep_alive, same_scheme, same_authority) ==
    ~keep_alive \/ ~same_scheme \/ ~same_authority

FollowNext_Get(f, ok, uri, reset) ==
    [f |-> [f EXCEPT !.send = SendHttp_new([ok.request EXCEPT !.uri = uri,
                                                              !.method = <<"G", "E", "T">>,
                                                              !.body = <<>>]),
                     !.remaining = @ - 1,
                     !.made = @ + 1],
     arg |-> None,
     ret |-> IF reset THEN ResReset(uri) ELSE ResContinue]

\* the redirect is followed: a new SendHttp for the request with the merged
\* Uri, one hop less
FollowNext(f, ok, uri, reset) ==
    [f |-> [f EXCEPT !.send = SendHttp_new([ok.request EXCEPT !.uri = uri]),
                     !.remaining = @ - 1,
                     !.made = @ + 1],
     arg |-> None,
     ret |-> IF reset THEN ResReset(uri) ELSE ResContinue]

\* the merged Uri is built: from_parts(..).unwrap()
FollowMerged(f, ok, merged, reset) ==
    IF merged.err THEN [f |-> f, arg |-> None, ret |-> ResPanic("unwrap on Err")]
    ELSE FollowNext(f, ok, merged.v, reset)

\* the Location is parsed
FollowParsed(f, ok, location, uri) ==
    IF uri.err THEN
        [f |-> f, arg |-> None, ret |-> ResErr("InvalidLocationUri", location)]
    ELSE FollowMerged(f, ok,
             UriFromParts(MergeParts(UriIntoParts(ok.request.uri), UriIntoParts(uri.v))),
             NeedsReset(ok.keep_alive, ok.request.uri.scheme = uri.v.scheme,
                        ok.request.uri.authority = uri.v.authority))

FollowLocation_NoToStr(f, ok, location) ==
    IF ~location.some THEN
        [f |-> f, arg |-> None, ret |-> ResErr("MissingLocationHeader", <<>>)]
    ELSE FollowParsed(f, ok, location.v, UriParse(location.v))

\* a redirection response: its Location header
FollowLocation(f, ok, location) ==
    IF ~location.some THEN
        [f |-> f, arg |-> None, ret |-> ResErr("MissingLocationHeader", <<>>)]
    ELSE IF ~ToStrOk(location.v) THEN
        [f |-> f, arg |-> None, ret |-> ResErr("InvalidLocationHeader", location.v)]
    ELSE FollowParsed(f, ok, location.v, UriParse(location.v))

FollowSent_CountsAll(f, r) ==
    CASE r.ret.kind = "Ok" ->
            IF IsRedirection(r.ret.val.response.status)
            THEN FollowLocation([f EXCEPT !.send = r.s], r.ret.val,
                                HeaderGet(r.ret.val.response.headers, LOCATION))
            ELSE [f |-> [f EXCEPT !.send = r.s, !.remaining = @ - 1], arg |-> None,
                  ret |-> r.ret]
      [] r.ret.kind = "Err" ->
            [f |-> [f EXCEPT !.send = r.s], arg |-> None,
             ret |-> ResErr("SendHttp", r.ret.io)]
      [] OTHER -> [f |-> [f EXCEPT !.send = r.s], arg |-> None, ret |-> r.ret]

FollowSent_Retry(f, r) ==
    CASE r.ret.kind = "Ok" ->
            IF IsRedirection(r.ret.val.response.status)
            THEN FollowLocation([f EXCEPT !.send = r.s], r.ret.val,
                                HeaderGet(r.ret.val.response.headers, LOCATION))
            ELSE [f |-> [f EXCEPT !.send = r.s], arg |-> None, ret |-> r.ret]
      [] r.ret.kind = "Err" ->
            [f |-> [f EXCEPT !.send = SendHttp_new(r.s.request),
                             !.remaining = @ - 1, !.made = @ + 1],
             arg |-> None, ret |-> ResContinue]
      [] OTHER -> [f |-> [f EXCEPT !.send = r.s], arg |-> None, ret |-> r.ret]

\* the inner SendHttp has answered r
FollowSent(f, r) ==
    CASE r.ret.kind = "Ok" ->
            IF IsRedirection(r.ret.val.response.status)
            THEN FollowLocation([f EXCEPT !.send = r.s], r.ret.val,
                                HeaderGet(r.ret.val.response.headers, LOCATION))
            ELSE [f |-> [f EXCEPT !.send = r.s], arg |-> None, ret |-> r.ret]
      [] r.ret.kind = "Err" ->
            [f |-> [f EXCEPT !.send = r.s], arg |-> None,
             ret |-> ResErr("SendHttp", r.ret.io)]
      [] OTHER -> [f |-> [f EXCEPT !.send = r.s], arg |-> None, ret |-> r.ret]

FollowStep_DropArg(f, arg, checks) ==
    IF f.remaining = 0 THEN
        [f |-> f, arg |-> None, ret |-> ResErr("TooManyRedirects", <<>>)]
    ELSE FollowSent(f, SendHttp_resume(f.send, None, checks))

\* one turn of the loop of resume
FollowStep(f, arg, checks) ==
    IF f.remaining = 0 THEN
        [f |-> f, arg |-> None, ret |-> ResErr("TooManyRedirects", <<>>)]
    ELSE FollowSent(f, SendHttp_resume(f.send, arg, checks))

\* FollowHttpRedirects::resume: the loop runs until a turn returns
RECURSIVE FollowHttpRedirects_resume(_, _, _)
FollowLoop(t, checks) ==
    IF t.ret.kind = "Continue" THEN FollowHttpRedirects_resume(t.f, t.arg, checks)
    ELSE [f |-> t.f, ret |-> t.ret]

FollowHttpRedirects_resume(f, arg, checks) ==
    FollowLoop(FollowStep(f, arg, checks), checks)

-----------------------------------------------------------------------------
(* The peers of a redirected request: what each server answers *)

HTTP == <<"h", "t", "t", "p">>
HTTPS == <<"h", "t", "t", "p", "s">>

\* a Uri as text
RenderUri(uri) ==
    (IF uri.scheme.some THEN uri.scheme.v \o SCHEME_SEP ELSE <<>>)
        \o (IF uri.authority.some THEN uri.authority.v ELSE <<>>)
        \o uri.path_and_query

\* the targets a Location names: a path on the same server, an absolute URI
\* on the server of the absolute request, an absolute URI elsewhere, a bare
\* authority
Locations ==
    {Uri(NoneOf, NoneOf, <<"/", "n", "e", "x", "t">>), Uri(Some(HTTP), Some(<<"h">>), <<"/", "b">>),
     Uri(Some(HTTPS), Some(<<"o">>), <<"/">>), Uri(NoneOf, Some(<<"o">>), <<>>)}

ContentLength0 == [name |-> <<"C", "o", "n", "t", "e", "n", "t", "-", "L", "e", "n", "g", "t", "h">>, value |-> <<"0">>]
ConnectionClose == [name |-> <<"C", "o", "n", "n", "e", "c", "t", "i", "o", "n">>, value |-> <<"c", "l", "o", "s", "e">>]
LocationHeader(text) == [name |-> <<"L", "o", "c", "a", "t", "i", "o", "n">>, value |-> text]

\* one answer of a server, with the Uri its Location names when it names one
Hop(reply, loc) == [reply |-> reply, loc |-> loc]
NoLoc == [some |-> FALSE, v |-> Uri(NoneOf, NoneOf, <<>>)]

FinalHop == Hop(Reply(1, 200, <<[name |-> <<"C", "o", "n", "t", "e", "n", "t", "-", "L", "e", "n", "g", "t", "h">>, value |-> <<"2">>]>>, <<"o", "k">>), NoLoc)

RedirectHops ==
    {Hop(Reply(1, code, c \o <<LocationHeader(RenderUri(u)), ContentLength0>>, <<>>),
         [some |-> TRUE, v |-> u]) :
        code \in {301, 303}, c \in {<<>>, <<ConnectionClose>>}, u \in Locations}

\* redirections no client can follow: no Location, one that is no URI, one
\* that is not ASCII
BadHops ==
    {Hop(Reply(1, code, h \o <<ContentLength0>>, <<>>), NoLoc) :
        code \in {300, 302, 399},
        h \in {<<>>, <<LocationHeader(<<>>)>>, <<LocationHeader(<<"a", " ", "b">>)>>,
               <<LocationHeader(<<HIGH>>)>>}}

\* an answer that is no redirection and closes the connection
NotFoundHop == Hop(Reply(1, 404, <<ConnectionClose, ContentLength0>>, <<>>), NoLoc)

\* a redirection whose body ends with the stream: no Content-Length, no
\* Transfer-Encoding
ToEndHop ==
    Hop(Reply(1, 301, <<LocationHeader(RenderUri(Uri(NoneOf, NoneOf, <<"/", "n", "e", "x", "t">>)))>>, <<>>),
        [some |-> TRUE, v |-> Uri(NoneOf, NoneOf, <<"/", "n", "e", "x", "t">>)])

Hops == {FinalHop, NotFoundHop, ToEndHop} \cup RedirectHops \cup BadHops

\* the requests: origin-form, and absolute as examples/send.rs builds them
FollowRequests ==
    {[target |-> t,
      request |-> MakeRequest(mb.method, t.scheme, t.authority, t.path, t.query, "HTTP_11",
                              <<Host>>, mb.body)] :
        mb \in {[method |-> <<"G", "E", "T">>, body |-> <<>>],
                [method |-> <<"P", "O", "S", "T">>, body |-> <<"x">>]},
        t \in {[scheme |-> NoneOf, authority |-> NoneOf, path |-> <<"/", "a">>, query |-> NoneOf],
               [scheme |-> Some(HTTP), authority |-> Some(<<"h">>), path |-> <<"/", "a">>,
                query |-> NoneOf]}}

-----------------------------------------------------------------------------
(* A request driven through its redirections *)

InitFollow ==
    /\ \E r \in FollowRequests :
          /\ env = [mode |-> "follow", target |-> r.target, request |-> r.request,
                    reply |-> NoReply, loc |-> NoLoc, checks |-> TRUE]
          /\ follow = FollowHttpRedirects_new(SendHttp_new(r.request))
    /\ chunks = NoChunks
    /\ send = NoSend
    /\ out = ResNew
    /\ wire = <<>>
    /\ log = NoLog

\* a call of resume has returned r: the coroutine's new state and its result
FollowResumed(r) == follow' = r.f /\ out' = r.ret

\* the byte counts of a write or read of this driver: everything, or
\* everything but the last bytes
FollowSizes(most, short) == {n \in 1..most : n = most \/ n = most - short}

\* the first call of resume, with no argument
FollowStart ==
    /\ out.kind = "New"
    /\ FollowResumed(FollowHttpRedirects_resume(follow, None, env.checks))
    /\ UNCHANGED <<chunks, send, wire, env, log>>

\* the driver writes n of the bytes of the write intent; the server answers
\* once it has the whole request
FollowWrite ==
    /\ out.kind = "Io" /\ out.io = "Write"
    /\ \E n \in FollowSizes(Len(out.val), MaxWrite) :
          /\ FollowResumed(FollowHttpRedirects_resume(follow, WriteDone(n), env.checks))
          /\ IF n = Len(out.val)
             THEN \E hop \in Hops :
                     /\ env' = [env EXCEPT !.reply = hop.reply, !.loc = hop.loc]
                     /\ wire' = wire \o Render(hop.reply)
                     /\ log' = [log EXCEPT !.redirects =
                                   IF IsRedirection(hop.reply.code) THEN @ + 1 ELSE @]
             ELSE UNCHANGED <<env, wire, log>>
    /\ UNCHANGED <<chunks, send>>

\* the driver fulfils the read with the next n bytes of the transport
FollowRead ==
    /\ out.kind = "Io" /\ out.io = "Read"
    /\ \E n \in FollowSizes(Len(wire), MaxRead) \cup FollowSizes(Len(wire), 1) :
          /\ FollowResumed(FollowHttpRedirects_resume(follow, ReadDone(Slice(wire, 0, n)),
                                                      env.checks))
          /\ wire' = From(wire, n)
    /\ UNCHANGED <<chunks, send, env, log>>

\* the peer has closed the transport: the read completes with 0 bytes
FollowReadEof ==
    /\ out.kind = "Io" /\ out.io = "Read"
    /\ FollowResumed(FollowHttpRedirects_resume(follow, ReadDone(<<>>), env.checks))
    /\ log' = [log EXCEPT !.eof = TRUE]
    /\ UNCHANGED <<chunks, send, wire, env>>

\* the driver answers Reset: it opens a stream to the Uri, and resumes with
\* no argument
FollowReset ==
    /\ out.kind = "Reset"
    /\ FollowResumed(FollowHttpRedirects_resume(follow, None, env.checks))
    /\ wire' = <<>>
    /\ UNCHANGED <<chunks, send, env, log>>

NextFollow == FollowStart \/ FollowWrite \/ FollowRead \/ FollowReadEof \/ FollowReset

Ended == out.kind \in {"Ok", "Err", "Panic"}

\* what the driver's loop can answer: a start, a write of some bytes, a
\* read, a reset
Driven ==
    \/ out.kind \in {"New", "Reset"}
    \/ out.kind = "Io" /\ out.io = "Read"
    \/ out.kind = "Io" /\ out.io = "Write" /\ out.val # <<>>

\* the driver's loop resumes the coroutine until it has ended. This is
\* WF_vars(NextFollow), with ENABLED <<NextFollow>>_vars spelled out: a step
\* is possible exactly as long as the coroutine has not ended.
DriverFair == []<>Ended \/ []<><<NextFollow>>_vars

SpecFollow == InitFollow /\ [][NextFollow]_vars /\ DriverFair

C9_OnlyBeyondFour ==
    (out.kind = "Err" /\ out.io = "TooManyRedirects") => log.redirects > InitialRemaining

\* keep_alive of an HTTP/1.1 response: no Connection: close
ReplyKeepAlive(reply) == ~ReplyHas(reply, CONNECTION, <<"c", "l", "o", "s", "e">>)

\* the target of the request after the redirection: scheme and authority of
\* the Location where it has them, its path and query in any case
MergedTarget(old, loc) ==
    Uri(IF loc.scheme.some THEN loc.scheme ELSE old.scheme,
        IF loc.authority.some THEN loc.authority ELSE old.authority,
        loc.path_and_query)

RelativeLocation ==
    env.loc.some /\ ~env.loc.v.scheme.some /\ ~env.loc.v.authority.some

\* C11: a keep-alive redirection whose Location is a path alone gives no
\* Reset, whether the request's Uri is in origin form or absolute; the run
\* ends Ok with the last response and the keep_alive of that last exchange.
C11_SameConnection ==
    /\ out.kind = "Reset" => ~(RelativeLocation /\ ReplyKeepAlive(env.reply))
    /\ out.kind = "Ok" =>
          /\ out.val.response.status = env.reply.code
          /\ out.val.response.body = env.reply.payload
          /\ out.val.keep_alive = ReplyKeepAlive(env.reply)

\* the response SendHttp builds from a server's answer whose Content-Length
\* is the length of its payload
ReplyResponse(reply) ==
    [version |-> IF reply.version = 0 THEN "HTTP_10" ELSE "HTTP_11",
     status |-> reply.code,
     headers |-> [i \in 1..Len(reply.headers) |->
                    [name |-> ToLower(reply.headers[i].name),
                     value |-> reply.headers[i].value]],
     body |-> reply.payload]

\* C12: once the inner exchange has completed with a response that is no
\* redirection the result is Ok; that Ok carries the request of the inner
\* SendHttp, the response and its keep_alive as they are, and the step that
\* returns it builds no SendHttp and leaves remaining alone.
C12_NotRedirection ==
    /\ []((env.reply.code # 0 /\ ~IsRedirection(env.reply.code)
              /\ wire = <<>> /\ ~log.eof) => out.kind = "Ok")
    /\ [][(out'.kind = "Ok" /\ out.kind # "Ok") =>
             /\ ~IsRedirection(env.reply.code)
             /\ out'.val.request = follow.send.request
             /\ out'.val.response = ReplyResponse(env.reply)
             /\ out'.val.keep_alive = ReplyKeepAlive(env.reply)
             /\ follow'.made = follow.made
             /\ follow'.remaining = follow.remaining]_vars

C12_Witness ==
    /\ out.kind = "Ok" /\ out.val.response.status = 404 /\ ~out.val.keep_alive
    /\ follow.made = 3 /\ follow.remaining = 2
    /\ out.val.request.uri = Uri(Some(HTTPS), Some(<<"o">>), <<"/", "n", "e", "x", "t">>)

\* the values of the Location headers of a server's answer
ReplyLocations(reply) ==
    {reply.headers[i].value : i \in {j \in 1..Len(reply.headers) :
                                         ToLower(reply.headers[j].name) = LOCATION}}

LocationErrors == {"MissingLocationHeader", "InvalidLocationHeader", "InvalidLocationUri"}

\* the error of a redirection nobody can follow: no Location, a Location
\* with a byte that is not ASCII, a Location that is no URI
LocationError(reply) ==
    IF ReplyLocations(reply) = {} THEN "MissingLocationHeader"
    ELSE IF \E v \in ReplyLocations(reply) : \E i \in 1..Len(v) : v[i] = HIGH
         THEN "InvalidLocationHeader"
    ELSE "InvalidLocationUri"

\* C13: a redirection without Location, with a Location that is not ASCII or
\* with one that is no URI ends in MissingLocationHeader,
\* InvalidLocationHeader or InvalidLocationUri; the step that fails gives no
\* Reset, builds no SendHttp and leaves remaining alone.
C13_LocationErrors ==
    /\ []((IsRedirection(env.reply.code) /\ ~env.loc.some /\ wire = <<>> /\ ~log.eof) =>
             (out.kind = "Err" /\ out.io = LocationError(env.reply)))
    /\ [][(out'.kind = "Err" /\ out'.io \in LocationErrors /\ out.kind # "Err") =>
             /\ IsRedirection(env.reply.code) /\ ~env.loc.some
             /\ out'.io = LocationError(env.reply)
             /\ follow'.made = follow.made
             /\ follow'.remaining = follow.remaining]_vars

C13_Witness ==
    /\ out.kind = "Err" /\ out.io = "InvalidLocationHeader"
    /\ env.reply.code = 399 /\ follow.made = 2 /\ follow.remaining = 3

-----------------------------------------------------------------------------
(* Chunked streams with extensions, trailer fields and odd size texts *)

\* chunk-size CRLF data term for each chunk, each size line with its text and
\* its extension, down to the line of the last, zero-size chunk
RECURSIVE EncodeLines(_, _, _, _, _)
EncodeLines(body, sizes, texts, exts, term) ==
    IF sizes = <<>> THEN Head(texts) \o Head(exts) \o CRLF
    ELSE Head(texts) \o Head(exts) \o CRLF
            \o Slice(body, 0, Head(sizes)) \o term
            \o EncodeLines(From(body, Head(sizes)), Tail(sizes), Tail(texts), Tail(exts), term)

\* the size of chunk i of a stream cut into sizes: 0 for the last line
LineSize(sizes, i) == IF i <= Len(sizes) THEN sizes[i] ELSE 0

\* the ways a size is written: lower case, upper case, with a leading zero
SizeStyles == {"lower", "upper", "zero"}

SizeText(n, style) ==
    CASE style = "lower" -> HexText(n, FALSE)
      [] style = "upper" -> HexText(n, TRUE)
      [] style = "zero" -> <<"0">> \o HexText(n, FALSE)

HelloWorld == <<"h", "e", "l", "l", "o", "w", "o", "r", "l", "d">>

LineBodies ==
    {[body |-> <<>>, sizes |-> <<>>], [body |-> <<"a">>, sizes |-> <<1>>],
     [body |-> <<"a", "b">>, sizes |-> <<1, 1>>], [body |-> <<"h", "e", "l", "l", "o">>, sizes |-> <<5>>],
     [body |-> HelloWorld, sizes |-> <<10>>]}

Extensions == {<<>>, <<";", "a", "=", "b">>}

Trailers == {<<>>, <<"x", ":", " ", "y">> \o CRLF, <<"x", ":", " ", "y">> \o CRLF \o <<"z", ":", " ", "w">> \o CRLF}

\* size texts that are no sequence of hexadecimal digits
OddTexts == {<<>>, <<"0", "x", "1">>, <<"0", "X", "1">>, <<"+", "1">>, <<"-", "1">>, <<" ", "1">>, <<"1", " ">>, <<"g">>, <<"1", "g">>}

\* the two bytes after the data of a chunk: CR LF, or anything else
Terms == {CRLF, <<"X", "Y">>}

\* the bytes a peer sends after the empty line that ends the stream
Tails == {<<>>, <<"X">>, CRLF, <<"X">> \o CRLF_CRLF}

\* a stream: its size lines written in one style, or the first one replaced
\* by an odd text, or the chunk "a" with any two bytes after its data and
\* any bytes after the end of the stream
ChunkStreams ==
    UNION {{[body |-> b.body, sizes |-> b.sizes, exts |-> x, trailer |-> t,
             term |-> CRLF, tail |-> <<>>,
             texts |-> [i \in 1..(Len(b.sizes) + 1) |->
                          SizeText(LineSize(b.sizes, i), style)]] :
               style \in SizeStyles, t \in Trailers,
               x \in [1..(Len(b.sizes) + 1) -> Extensions]} : b \in LineBodies}
    \cup
    {[body |-> <<"a">>, sizes |-> <<1>>, exts |-> <<x, <<>>>>, trailer |-> <<>>,
      term |-> CRLF, tail |-> <<>>,
      texts |-> <<odd, <<"0">>>>] : odd \in OddTexts, x \in Extensions}
    \cup
    {[body |-> <<"a">>, sizes |-> <<1>>, exts |-> <<<<>>, <<>>>>, trailer |-> <<>>,
      term |-> tm, tail |-> tl,
      texts |-> <<<<"1">>, <<"0">>>>] : tm \in Terms, tl \in Tails}

InitChunkLines ==
    /\ \E e \in ChunkStreams, checks \in BOOLEAN :
          /\ env = [body |-> e.body, sizes |-> e.sizes, texts |-> e.texts,
                    exts |-> e.exts, trailer |-> e.trailer, checks |-> checks,
                    term |-> e.term, tail |-> e.tail,
                    stream |-> EncodeLines(e.body, e.sizes, e.texts, e.exts, e.term)
                                  \o e.trailer \o CRLF \o e.tail]
          /\ wire = EncodeLines(e.body, e.sizes, e.texts, e.exts, e.term)
                        \o e.trailer \o CRLF \o e.tail
    /\ chunks = ReadStreamChunks_new
    /\ send = NoSend
    /\ follow = NoFollow
    /\ out = ResNew
    /\ log = NoLog

SpecChunkLines == InitChunkLines /\ [][NextChunks]_vars

\* a non-empty sequence of hexadecimal digits, in either letter case
HexDigits == <<"0", "1", "2", "3", "4", "5", "6", "7", "8", "9", "a", "b", "c", "d", "e", "f", "A", "B", "C", "D", "E", "F">>
IsHexText(t) ==
    t # <<>> /\ \A i \in 1..Len(t) : \E j \in 1..Len(HexDigits) : t[i] = HexDigits[j]

\* every size line of the stream is well-formed
WellFormed ==
    /\ \A i \in 1..Len(env.texts) : IsHexText(env.texts[i])
    /\ env.term = CRLF /\ env.tail = <<>>

\* C14: a stream whose zero-size chunk line is followed by trailer fields and
\* the empty line is decoded like one without them: Ok with the chunk data,
\* once its last byte is received.
C14_Trailers ==
    /\ (WellFormed /\ out.kind = "Ok") => out.val = env.body
    /\ (WellFormed /\ wire = <<>> /\ ~log.eof) => out.kind = "Ok"

\* C15: extensions on the size lines, the last one included, change nothing:
\* a stream without trailer fields is decoded to its chunk data, Ok coming
\* with its last byte, whatever extensions its size lines carry.
C15_Extensions ==
    /\ (WellFormed /\ out.kind = "Ok") => out.val = env.body
    /\ (WellFormed /\ env.trailer = <<>> /\ ~log.eof) =>
          /\ out.kind \in {"New", "Io", "Ok"}
          /\ wire = <<>> => out.kind = "Ok"

\* "5;a=b CRLF hello CRLF 0;a=b CRLF CRLF" has been decoded to "hello"
C15_Witness ==
    /\ out.kind = "Ok" /\ out.val = <<"h", "e", "l", "l", "o">>
    /\ env.stream = <<"5", ";", "a", "=", "b">> \o CRLF \o <<"h", "e", "l", "l", "o">> \o CRLF \o <<"0", ";", "a", "=", "b">> \o CRLF_CRLF

\* C16: a read that reports the end of the stream, in whatever state the
\* decoder is, ends it with UnexpectedEof: no Ok with the body decoded so
\* far, no further read.
C16_UnexpectedEof ==
    /\ log.eof => (out.kind = "Err" /\ out.io = "UnexpectedEof")
    /\ out.kind = "Ok" => (wire = <<>> /\ out.val = env.body)

\* the stream ended after the zero-size line, with chunk data decoded
C16_Witness ==
    /\ log.eof /\ chunks.state = "Trailer" /\ chunks.body # <<>>
    /\ out.kind = "Err" /\ out.io = "UnexpectedEof"

\* the first size line of the stream, its CRLF included, has been received
FirstLineReceived ==
    Len(env.stream) - Len(wire) >= Len(env.texts[1]) + Len(env.exts[1]) + Len(CRLF)

\* C17: the text before the first ';' or the CRLF of a size line is accepted
\* exactly when it is a non-empty sequence of hexadecimal digits; any other
\* text fails with InvalidChunkSize carrying that text.
C17_ChunkSizeText ==
    /\ (out.kind = "Err" /\ out.io = "InvalidChunkSize") =>
          (~IsHexText(env.texts[1]) /\ out.val = env.texts[1])
    /\ (~IsHexText(env.texts[1]) /\ FirstLineReceived) =>
          (out.kind = "Err" /\ out.io = "InvalidChunkSize" /\ out.val = env.texts[1])

Reading == out.kind = "Io" /\ out.io = "Read"

\* C18: SendHttp asks for a read only once the whole serialized request is
\* written, and asks for no write once it has asked for a read.
C18_WriteBeforeRead ==
    /\ [](Reading => log.written = Serialize(env.request))
    /\ [][Reading => ~(out'.kind = "Io" /\ out'.io = "Write")]_vars

\* the first read is asked for after a request of several partial writes
C18_Witness ==
    /\ Reading /\ send.state = "ReceiveHeaders" /\ send.headers = <<>>
    /\ Len(env.request.body) = 14 /\ log.written = Serialize(env.request)

\* a response with Content-Length: 0 and no Transfer-Encoding: chunked
ZeroLength(reply) ==
    ReplyHas(reply, CONTENT_LENGTH, <<"0">>) /\ ~ReplyHas(reply, TRANSFER_ENCODING, CHUNKED)

\* C19: with Content-Length: 0, once the read that completes the header
\* block is done SendHttp is in the length-delimited state and has returned
\* Ok with an empty body: it asks for no further read.
C19_ZeroLength ==
    (ZeroLength(env.reply) /\ log.seed = 0) =>
        /\ out.kind = "Ok" /\ out.val.response.body = <<>>
        /\ send.state = "ReceiveLengthedBody"

C19_Witness ==
    /\ ZeroLength(env.reply) /\ env.reply.payload = <<>> /\ wire = <<>>
    /\ out.kind = "Ok" /\ out.val.response.body = <<>>
    /\ send.state = "ReceiveLengthedBody"

\* the bytes of the response the client has received
Received == Slice(Render(env.reply), 0, Len(Render(env.reply)) - Len(wire))

\* C20: a write or a header read that reports the end of the stream fails
\* with UnexpectedEof; a header block the parser refuses fails with
\* ParseResponseHeaders; while the header block is incomplete SendHttp asks
\* for another read, keeping what it has received; none of these gives Ok.
C20_Errors ==
    /\ (log.eof /\ send.state \in {"Send", "ReceiveHeaders"}) =>
          (out.kind = "Err" /\ out.io = "UnexpectedEof")
    /\ (out.kind = "Err" /\ out.io = "ParseResponseHeaders") => env.reply \in BadReplies
    /\ (env.reply \in BadReplies /\ wire = <<>> /\ ~log.eof) =>
          (out.kind = "Err" /\ out.io = "ParseResponseHeaders")
    /\ (env.reply \notin BadReplies \cup {NoReply} /\ ~log.eof
            /\ Len(Received) < Len(RenderHead(env.reply))) =>
          (Reading /\ send.state = "ReceiveHeaders" /\ send.headers = Received)
    /\ out.kind = "Ok" =>
          /\ env.reply \notin BadReplies \cup {NoReply}
          /\ Len(Received) >= Len(RenderHead(env.reply))

\* a header block with a header name the parser refuses, received in
\* several reads
C20_Witness ==
    /\ out.kind = "Err" /\ out.io = "ParseResponseHeaders"
    /\ env.reply.headers # <<>> /\ send.headers = Received
    /\ Len(Received) > MaxRead

\* C21: whatever the server sends, resume returns an intent, Ok or a typed
\* error: it never aborts, and Ok carries the status the server sent.
C21_NoAbort ==
    /\ out.kind \in {"New", "Io", "Ok", "Err"}
    /\ out.kind = "Ok" => out.val.response.status = env.reply.code

\* C22: the request of an Ok result is the request SendHttp was built with,
\* whichever body state the exchange ended in.
C22_RequestKept == out.kind = "Ok" => out.val.request = env.request

\* a request with two caller Content-Length headers comes back after a
\* body read to the end of the stream
C22_Witness ==
    /\ out.kind = "Ok" /\ send.state = "ReceiveBody"
    /\ out.val.request = env.request
    /\ Cardinality({i \in 1..Len(env.request.headers) :
                       ToLower(env.request.headers[i].name) = CONTENT_LENGTH}) = 2

\* C23: a Location that is a valid URI (absolute, a path, or an authority
\* alone) always merges into a target Uri: the follower does not abort
\* while building it.
C23_MergeDefined ==
    (IsRedirection(env.reply.code) /\ env.loc.some) => out.kind # "Panic"

\* C24: the resume that follows Reset starts the new SendHttp: it returns the
\* write intent for the whole rewritten request, not a failure of the
\* follower.
C24_AfterReset ==
    [][out.kind = "Reset" =>
          /\ out'.kind = "Io" /\ out'.io = "Write"
          /\ out'.val = Serialize(follow.send.request)]_vars

\* C25: once the header block is complete, the connection is marked closed
\* when the response has Connection: close, and otherwise exactly when it is
\* an HTTP/1.0 response.
C25_ConnClosed ==
    send.state \in BodyStates =>
        (send.is_conn_closed <=>
            (ReplyHas(env.reply, CONNECTION, CLOSE) \/ env.reply.version = 0))

\* C26: a response without any header ends the exchange with the header
\* block: no body state is entered (no further read), and the result is Ok
\* with an empty body and keep_alive set exactly for HTTP/1.1.
C26_Degenerate ==
    (env.reply.headers = <<>> /\ env.reply.version \in {0, 1} /\ env.reply.code = 200) =>
        /\ send.state \notin BodyStates
        /\ out.kind = "Ok" =>
              /\ out.val.response.body = <<>>
              /\ out.val.keep_alive = (env.reply.version = 1)

\* C27: an exchange whose body was delimited by the end of the stream
\* (state ReceiveBody) ends with keep_alive false, for either version.
C27_ReadToEndCloses ==
    (out.kind = "Ok" /\ send.state = "ReceiveBody") => ~out.val.keep_alive

\* the accumulator begins with CRLF CRLF
BeginsWithEnd(buffer) ==
    Len(buffer) >= Len(CRLF_CRLF) /\ Slice(buffer, 0, Len(CRLF_CRLF)) = CRLF_CRLF

\* C28: in state Trailer the decoder ends with the decoded body as soon as
\* its accumulator begins with CRLF CRLF, whatever follows; it asks for a
\* read only while the accumulator does not begin with CRLF CRLF.
C28_TerminatorAtStart ==
    (chunks.state = "Trailer" /\ out.kind # "New" /\ BeginsWithEnd(chunks.buffer)) =>
        (out.kind = "Ok" /\ out.val = env.body)

\* C29: every chunk whose data is not followed by CR LF keeps the decoder
\* from Ok: an Ok result means the two bytes removed after each chunk's data
\* were CR LF.
C29_ChunkEnd == out.kind = "Ok" => env.term = CRLF

\* the bytes the last step took from the transport
JustRead == Slice(wire, 0, Len(wire) - Len(wire'))

C31_NoRetry ==
    /\ [][(out'.kind = "Err" /\ out'.io = "SendHttp") =>
             /\ Reading /\ wire' = wire
             /\ out'.val = SendHttp_resume(follow.send, ReadDone(<<>>), env.checks).ret.io
             /\ follow'.made = follow.made
             /\ follow'.remaining = follow.remaining
             /\ follow'.send.request = follow.send.request]_vars
    /\ [][(Reading /\ wire' = wire /\ follow.send.state # "ReceiveBody") =>
             (out'.kind = "Err" /\ out'.io = "SendHttp")]_vars
    /\ [][out.kind # "Err"]_vars

\* the stream of the third exchange ended within the header block
C31_Witness ==
    /\ out.kind = "Err" /\ out.io = "SendHttp" /\ out.val = "UnexpectedEof"
    /\ follow.made = 3 /\ follow.remaining = 2
    /\ follow.send.state = "ReceiveHeaders" /\ follow.send.headers # <<>>

-----------------------------------------------------------------------------
(* Chunked streams whose size lines are near the largest usize *)

\* the size texts at the limit: the two largest sizes whose data counter
\* still fits, the two whose counter does not, and one past usize
LimitTexts == {HexText(UsizeMax - 3, FALSE), HexText(UsizeMax - 2, FALSE),
               HexText(UsizeMax - 1, FALSE), HexText(UsizeMax, FALSE),
               HexText(UsizeMax + 1, FALSE)}

\* a stream of one or two chunks of one byte, the size line of the last one
\* replaced by a text at the limit
LimitStreams ==
    {[body |-> b.body, sizes |-> b.sizes, exts |-> [i \in 1..(Len(b.sizes) + 1) |-> <<>>],
      trailer |-> <<>>, term |-> CRLF, tail |-> <<>>,
      texts |-> [i \in 1..(Len(b.sizes) + 1) |->
                   IF i = Len(b.sizes) THEN t
                   ELSE SizeText(LineSize(b.sizes, i), "lower")]] :
        b \in {[body |-> <<"a">>, sizes |-> <<1>>], [body |-> <<"a", "b">>, sizes |-> <<1, 1>>]},
        t \in LimitTexts}

InitChunkLimits ==
    /\ \E e \in LimitStreams, checks \in BOOLEAN :
          /\ env = [body |-> e.body, sizes |-> e.sizes, texts |-> e.texts,
                    exts |-> e.exts, trailer |-> e.trailer, checks |-> checks,
                    term |-> e.term, tail |-> e.tail,
                    stream |-> EncodeLines(e.body, e.sizes, e.texts, e.exts, e.term)
                                  \o e.trailer \o CRLF \o e.tail]
          /\ wire = EncodeLines(e.body, e.sizes, e.texts, e.exts, e.term)
                        \o e.trailer \o CRLF \o e.tail
    /\ chunks = ReadStreamChunks_new
    /\ send = NoSend
    /\ follow = NoFollow
    /\ out = ResNew
    /\ log = NoLog

SpecChunkLimits == InitChunkLimits /\ [][NextChunks]_vars

\* every stream of the two families
SpecChunkStreams == (InitChunkLines \/ InitChunkLimits) /\ [][NextChunks]_vars

\* the turns of the loop of resume that a call makes before it returns
RECURSIVE ChunksTurnsFrom(_, _)
ChunksTurnsFrom(s, checks) ==
    IF s.ret.kind = "Continue"
    THEN 1 + ChunksTurnsFrom(ChunksStep(s.c, s.arg, checks), checks)
    ELSE 1

ChunksTurns(c, arg, checks) == ChunksTurnsFrom(ChunksStep(c, arg, checks), checks)

\* each resume that completes a read takes a number of turns bounded by the
\* bytes it has to work on, and either takes bytes from the transport or
\* ends the decoder
ChunksProgress ==
    [][out.kind = "Io" =>
          /\ ChunksTurns(chunks, ReadDone(JustRead), env.checks)
                <= Len(chunks.buffer) + Len(JustRead) + 3
          /\ Len(wire') < Len(wire) \/ out'.kind \in {"Ok", "Err", "Panic"}]_vars

\* C32: whatever the stream and however it is split across reads, a driver
\* that fulfils every read brings the decoder to Ok or Err after finitely
\* many resumes, each resume making finitely many turns of its loop: a resume
\* either returns a read intent, Ok or Err, and each completed read takes
\* bytes from the finite stream or ends the decoder.
C32_Terminates ==
    /\ [](out.kind \in {"New", "Io", "Ok", "Err"})
    /\ ChunksProgress

\* the stage of a state of SendHttp
StateStage(state) ==
    CASE state = "Serialize" -> 0
      [] state = "Send" -> 1
      [] state = "ReceiveHeaders" -> 2
      [] state \in BodyStates -> 3

\* C33: SendHttp starts in Serialize and its state only moves forward, one
\* stage at a time: Serialize, Send, ReceiveHeaders, then one body state that
\* it never leaves; Ok comes from ReceiveHeaders or from a body state only.
C33_Forward ==
    /\ [](out.kind = "New" => send.state = "Serialize")
    /\ [](out.kind = "Ok" => send.state \in {"ReceiveHeaders"} \cup BodyStates)
    /\ [][/\ StateStage(send'.state) \in {StateStage(send.state), StateStage(send.state) + 1}
          /\ send.state \in BodyStates => send'.state = send.state]_vars

\* the exchange has gone through every stage and ended with a chunked body
C33_Witness ==
    /\ out.kind = "Ok" /\ send.state = "ReceiveChunkedBody"
    /\ out.val.response.body # <<>>
    /\ log.written = Serialize(env.request)

\* C34: following a redirection changes the Uri of the request and nothing
\* else: the new SendHttp carries the method, version, headers (the Host
\* header of the caller included) and body of the request before it, and so
\* those of the caller's request, whatever the status code and the target.
C34_OnlyUri ==
    /\ [](~Ended => follow.send.request = [env.request EXCEPT !.uri = follow.send.request.uri])
    /\ [][follow'.made # follow.made =>
             /\ IsRedirection(env.reply.code)
             /\ follow'.send.state \in {"Serialize", "Send"}
             /\ follow'.send.request =
                   [follow.send.request EXCEPT !.uri = follow'.send.request.uri]]_vars

\* the POST with its body and its Host header for h is to be written to o,
\* after a 303
C34_Witness ==
    /\ Writing /\ follow.made >= 2 /\ env.reply.code = 303
    /\ follow.send.request.method = <<"P", "O", "S", "T">>
    /\ follow.send.request.body = <<"x">>
    /\ follow.send.request.headers = <<Host>>
    /\ follow.send.request.uri.authority = Some(<<"o">>)
    /\ out.val = Serialize(follow.send.request)

\* C35: a size text that parses to s > 0 sets the ChunkData counter to
\* s + 2, whatever s (the counter and the bytes already moved to the body add
\* up to s + 2 while the one chunk of a stream is decoded), and no resume
\* aborts on the addition or on the removal of the last 2 bytes of the body.
C35_NoWrap ==
    /\ out.kind # "Panic"
    /\ (Len(env.sizes) = 1 /\ chunks.state = "ChunkData") =>
          chunks.size + Len(chunks.body) = FromStrRadix(env.texts[1], 16) + Len(CRLF)

=============================================================================
